---- MODULE Spec2Model ----
(***************************************************************************)
(* A model of mitogen's connection multiplexer (mitogen/core.py and        *)
(* mitogen/master.py): the framed stream protocol, the router's dispatch   *)
(* and route table, the broker's deferred-call queue and the reply         *)
(* receivers.                                                              *)
(*                                                                         *)
(* The module holds several specifications over one set of variables:      *)
(*   SpecFrame   one stream at byte level: Stream._send, on_transmit,      *)
(*               on_receive and _receive_one.                              *)
(*   SpecRouter  one process's Router and Broker at message level, with    *)
(*               its caller threads and the frames its peers send.         *)
(*   SpecReply   the same process with requests and replies only, under    *)
(*               fair scheduling.                                          *)
(*   SpecBroker  the broker thread from its main loop through shutdown to  *)
(*               'exit' (SpecBrokerFair: with the thread scheduled).       *)
(*   SpecDispatch  a slave's main thread in _dispatch_calls.               *)
(*   SpecIds     the master's IdAllocator under concurrent callers.        *)
(*   SpecSelect, SpecSelectGraph  Select objects and their Receivers.      *)
(*   SpecImport  a slave's Importer and ModuleForwarder with its parent.   *)
(*   SpecPickle  Message.pickled and Message.unpickle of one message.      *)
(*   SpecBoot    Router._connect of one local or ssh Stream: bootstrap.    *)
(*   SpecMain    ModuleResponder.neutralize_main on a served source text.  *)
(*   SpecTree    the master's proxy_connect and the routes of a peer tree. *)
(*   SpecTransmit  one Stream's transmit queue under short writes.         *)
(*   SpecCascade   the brokers of a peer tree once the master shuts down.  *)
(*   SpecRelated   ModuleResponder.find_related on an import graph.        *)
(* A specification leaves the variables of the other layers unchanged.     *)
(***************************************************************************)
EXTENDS Integers, Sequences, FiniteSets, TLC

VARIABLES
    \* ---- byte level: one Stream (SpecFrame) ----
    tosend,         \* messages the application still has to pass to Stream._send
    encoded,        \* history: the messages _send has packed, in order
    struct_error,   \* history: the messages on which _send raised struct.error
    _output_buf,    \* Stream._output_buf: deque of packed frames (byte strings)
    wire,           \* bytes written to transmit_side and not yet read by the peer
    _input_buf,     \* the receiving Stream._input_buf
    routed,         \* history: messages _receive_one handed to Router._async_route
    eof             \* the receiving stream saw a zero-byte read and disconnected

frameVars == <<tosend, encoded, struct_error, _output_buf, wire, _input_buf,
               routed, eof>>

VARIABLES
    \* ---- message level: one process's Router and Broker ----
    context_id,     \* mitogen.context_id of the peer
    parent_id,      \* mitogen.parent_id of the peer (None in the master)
    _stream_by_id,  \* Router._stream_by_id: context id -> stream
    _context_by_id, \* Router._context_by_id: context id -> Context object
    _handle_map,    \* Router._handle_map: handle -> (persist, fn)
    _last_handle,   \* next value of Router._last_handle (itertools.count(1000))
    _signals,       \* Context object -> its 'disconnect' listeners, in order
    side_fd,        \* stream -> "new" (not connected yet), "open", "closed"
    out_msgs,       \* stream -> Stream._output_buf, each packed frame as its message
    _readers,       \* Broker._readers, by stream
    _writers,       \* Broker._writers, by stream
    _alive,         \* Broker._alive
    Broker_queue,   \* Broker._queue: the deferred calls, first in first out
    receivers,      \* the Receivers made by send_async: handle -> its fields
    Receiver_queue, \* handle -> Receiver._queue
    peer_got,       \* stream -> reply handles of this peer's requests written to it
    nrecv           \* number of frames the peers have sent to this one so far

routerVars == <<context_id, parent_id, _stream_by_id, _context_by_id, _handle_map,
                _last_handle, _signals, side_fd, out_msgs, _readers, _writers,
                _alive, Broker_queue, receivers, Receiver_queue, peer_got, nrecv>>

VARIABLES
    \* ---- the broker thread's life (SpecBroker) ----
    pc,             \* where the broker thread stands in Broker._broker_main
    events,         \* history: what the threads have done to the broker, in order
    deadline_passed,\* time.time() has reached the shutdown deadline
    wake_pipe       \* bytes written to the Waker's pipe and not yet read

brokerVars == <<pc, events, deadline_passed, wake_pipe>>


VARIABLES
    dispatch_pc,    \* ExternalContext._dispatch_calls: "running", "stopped", "crashed"
    taken,          \* how many items the dispatch loop took from its channel
    replies         \* history: the replies the dispatch loop routed, with the item answered

dispatchVars == <<dispatch_pc, taken, replies>>

VARIABLES
    next_id,        \* IdAllocator.next_id of the master
    lock,           \* IdAllocator.lock: the thread holding it, or "free"
    alloc,          \* per thread: where it stands in connect / allocate, its id_
    handed,         \* history: the ids allocate() handed out, in order
    peers           \* the processes brought up: context_id and parent_ids

idVars == <<next_id, lock, alloc, handed, peers>>

VARIABLES
    _receivers,     \* Select._receivers of each Select: a list of Receivers and Selects
    notify,         \* notify of each Receiver and Select: the Select whose _put it is
    Select_queue,   \* Select._queue of each Select
    recv_msgs,      \* the number of messages in each Receiver's queue
    _oneshot,       \* Select._oneshot of each Select
    adding,         \* per Select: the object an add() has installed and not yet polled
    getting         \* per Select: a consumer is inside get()

selectVars == <<_receivers, notify, Select_queue, recv_msgs, _oneshot, adding,
                getting>>

\* the layers a step of one layer leaves alone
VARIABLES
    \* ---- a slave's Importer and ModuleForwarder (SpecImport) ----
    _cache,         \* Importer._cache: fullname -> absent, None or a module tuple
    fwd_handlers,   \* the one-shot handlers ModuleForwarder registered, each
                    \* closed over the request it was made for
    to_parent,      \* history: the GET_MODULE requests sent to the parent
    nanswered,      \* how many of them the parent has answered
    to_child,       \* history: the replies routed to requesting children
    load_pc,        \* the importing thread: "idle", or "waiting" in send_await
    load_name,      \* the fullname it is loading
    Importer_reply, \* the reply queued on the Receiver of send_await
    loads           \* history: every finished load_module call

importVars == <<_cache, fwd_handlers, to_parent, nanswered, to_child, load_pc,
                load_name, Importer_reply, loads>>

VARIABLES
    \* ---- one Message carrying a pickle (SpecPickle) ----
    pickle_pc,      \* "idle", "pickled" (data is set), "unpickled"
    obj,            \* the object given to Message.pickled
    Message_data,   \* Message.data: the pickle, written here or by a peer
    Message_router, \* whether Message.router is set on the receiving side
    unpickled       \* what Message.unpickle returned or raised

pickleVars == <<pickle_pc, obj, Message_data, Message_router, unpickled>>

VARIABLES
    \* ---- one Stream being connected by Router._connect (SpecBoot) ----
    klass,          \* "master.Stream" or "ssh.Stream"
    password,       \* ssh.Stream.password: "None" or the configured password
    boot_pc,        \* where the thread in Router._connect is
    password_sent,  \* the local of ssh.Stream._connect_bootstrap
    nreads,         \* the chunks iter_read has yielded
    last_step,      \* history: the last chunk read before EC0 and what
                    \* _connect_bootstrap made of it
    ec0_read,       \* history: a chunk ending in EC0 was read
    ec1_read,       \* history: after the preamble, a chunk ending in EC1 was read
    tty_out,        \* history: what was written to the transmit side
    preamble_written, \* bytes of the preamble write_all has written
    raised,         \* the exception that left connect(), "" for none
    child_proc,     \* the process create_child forked
    registered      \* Router.register was called for the stream

bootVars == <<klass, password, boot_pc, password_sent, nreads, last_step,
              ec0_read, ec1_read, tty_out, preamble_written, raised,
              child_proc,
              registered>>

VARIABLES
    \* ---- the ModuleResponder serving one source text (SpecMain) ----
    main_src,       \* the source get_module_source found, as a list of lines
    served          \* the source _on_get_module last compressed, and for whom

mainVars == <<main_src, served>>

VARIABLES
    \* ---- the master and a tree of peers under it (SpecTree) ----
    routes,         \* peer -> its Router._stream_by_id, a stream named by the
                    \* peer at its far end
    via_of,         \* the master's Contexts: id -> the id of Context.via
    parent_of,      \* peer -> the peer that connected it
    chan,           \* peer -> the frames on the stream from its parent, in order
    tree_pc,        \* the master's caller thread: "idle" or in "proxy_connect"
    connecting,     \* the id and the via of the proxy_connect under way
    call_returned,  \* the reply of the _proxy_connect call has come back
    delivered,      \* history: the data messages their destination invoked
    bounced,        \* history: the frames a peer sent to its parent for want
                    \* of a route
    nsent           \* the data messages the master has sent

treeVars == <<routes, via_of, parent_of, chan, tree_pc, connecting,
              call_returned, delivered, bounced, nsent>>

\* SpecTransmit: the transmit half of one Stream under short writes.  A
\* buffer is kept as the slice of the frame it is: bytes `from` ..
\* `from + len - 1` (0-based) of the frame-th frame _send packed.
VARIABLES
    transmit_fd,    \* Stream.transmit_side.fd: "open", or "None" once closed
    tx_output_buf,  \* Stream._output_buf, a deque of buffers
    tx_writers,     \* whether Broker._writers holds the transmit side
    frame_lens,     \* history: the length of each frame _send packed, in order
    write_log,      \* history: the slice each os.write accepted, in order
    send_failed,    \* history: the calls of _send that raised
    tx_pc           \* the handler that ran last: "", "_send" or "on_transmit"

transmitVars == <<transmit_fd, tx_output_buf, tx_writers, frame_lens, write_log,
                  send_failed, tx_pc>>

\* SpecCascade: the brokers of a tree of peers from the master's shutdown
\* on.  A stream is named by the peer at its far end.
VARIABLES
    tree_parent,    \* slave -> the peer that connected it (mitogen.parent_id)
    alive_of,       \* peer -> Broker._alive
    loop_pc,        \* peer -> where its broker thread is in _broker_main:
                    \* "loop", "after_loop", "drain" or "exit"
    readers_of,     \* peer -> the streams whose receive side is in _readers
    output_of,      \* peer -> stream -> SHUTDOWN frames in Stream._output_buf
    inflight,       \* peer -> stream -> frames written to it and not yet read
    closed_end,     \* peer -> stream -> the peer has closed its fds of it
    shutdown_cause  \* history: slave -> what made it call Broker.shutdown

cascadeVars == <<tree_parent, alive_of, loop_pc, readers_of, output_of,
                 inflight, closed_end, shutdown_cause>>

\* SpecRelated: ModuleResponder.find_related on the import graph of the
\* loaded modules.
VARIABLES
    imports_of,     \* fullname -> what find_related_imports(fullname) returns
    related_pc,     \* "idle", "loop" or "returned"
    related_root,   \* the fullname find_related was called with
    related_stack,  \* the local `stack`
    related_found,  \* the local `found`
    related_turns   \* history: the turns of the while loop so far

relatedVars == <<imports_of, related_pc, related_root, related_stack,
                 related_found, related_turns>>

notBroker == <<dispatchVars, idVars, selectVars, importVars, pickleVars, bootVars, mainVars, treeVars, transmitVars, cascadeVars, relatedVars>>
notDispatch == <<brokerVars, idVars, selectVars, importVars, pickleVars, bootVars, mainVars, treeVars, transmitVars, cascadeVars, relatedVars>>
notIds == <<brokerVars, dispatchVars, selectVars, importVars, pickleVars, bootVars, mainVars, treeVars, transmitVars, cascadeVars, relatedVars>>
notSelect == <<brokerVars, dispatchVars, idVars, importVars, pickleVars, bootVars, mainVars, treeVars, transmitVars, cascadeVars, relatedVars>>
notImport == <<brokerVars, dispatchVars, idVars, selectVars, pickleVars, bootVars, mainVars, treeVars, transmitVars, cascadeVars, relatedVars>>

notPickle == <<brokerVars, dispatchVars, idVars, selectVars, importVars, bootVars, mainVars, treeVars, transmitVars, cascadeVars, relatedVars>>

notBoot == <<brokerVars, dispatchVars, idVars, selectVars, importVars,
              pickleVars, mainVars, treeVars, transmitVars, cascadeVars, relatedVars>>

notMain == <<brokerVars, dispatchVars, idVars, selectVars, importVars,
              pickleVars,
              bootVars, treeVars, transmitVars, cascadeVars, relatedVars>>

notTree == <<brokerVars, dispatchVars, idVars, selectVars, importVars,
              pickleVars,
              bootVars,
              mainVars, transmitVars, cascadeVars, relatedVars>>

notTransmit == <<brokerVars, dispatchVars, idVars, selectVars, importVars,
              pickleVars,
              bootVars,
              mainVars,
              treeVars, cascadeVars, relatedVars>>

notCascade == <<brokerVars, dispatchVars, idVars, selectVars, importVars,
              pickleVars,
              bootVars,
              mainVars,
              treeVars,
              transmitVars, relatedVars>>

notRelated == <<brokerVars, dispatchVars, idVars, selectVars, importVars,
              pickleVars,
              bootVars,
              mainVars,
              treeVars,
              transmitVars,
              cascadeVars>>

layerVars == <<brokerVars, dispatchVars, idVars, selectVars, importVars,
              pickleVars,
              bootVars,
              mainVars,
              treeVars,
              transmitVars,
              cascadeVars,
              relatedVars>>

vars == <<frameVars, routerVars, layerVars>>

-----------------------------------------------------------------------------
(* Bounds of the model.                                                    *)

\* At most this many messages are passed to Stream._send in one behaviour.
MaxFrames == 2

-----------------------------------------------------------------------------
(* Messages and the wire header.                                           *)

\* Message.reply_to = None (the class default), kept apart from every
\* integer a header field can carry.
None == -1

CHUNK_SIZE == 16384

\* struct format '>hhLLL': the byte width of each of the five header fields
\* (h = 2, L = 4), big-endian, standard sizes.
HEADER_FMT == <<2, 2, 4, 4, 4>>

\* 'h' is a signed field, 'L' an unsigned one.
HEADER_SIGNED == <<TRUE, TRUE, FALSE, FALSE, FALSE>>

RECURSIVE SumSeq(_)
SumSeq(s) == IF s = <<>> THEN 0 ELSE Head(s) + SumSeq(Tail(s))

\* struct.calcsize(HEADER_FMT)
HEADER_LEN == SumSeq(HEADER_FMT)

RECURSIVE Pow(_, _)
Pow(b, n) == IF n = 0 THEN 1 ELSE b * Pow(b, n - 1)

RECURSIVE ShiftRight(_, _)
\* v with its w low-order bytes dropped (floor division by 256^w)
ShiftRight(v, w) == IF w = 0 THEN v ELSE ShiftRight(v \div 256, w - 1)

\* 2^(8w-1): the first value a signed field of w bytes cannot carry
SignedLimit(w) == 128 * Pow(256, w - 1)

\* struct.pack raises struct.error unless the value fits the field:
\* -2^(8w-1) <= v < 2^(8w-1) for a signed one, 0 <= v < 2^(8w) otherwise.
FitsField(v, w, signed) ==
    IF signed THEN v >= -SignedLimit(w) /\ v < SignedLimit(w)
              ELSE v >= 0 /\ ShiftRight(v, w) = 0

RECURSIVE BigEndian(_, _)
\* the w low-order bytes of v, most significant first; \div and % round
\* down, so a negative v comes out in two's complement
BigEndian(v, w) ==
    IF w = 0 THEN <<>> ELSE Append(BigEndian(v \div 256, w - 1), v % 256)

\* one packed field
PackField(v, w, signed) == BigEndian(v, w)

RECURSIVE FromBigEndian(_)
FromBigEndian(bytes) ==
    IF bytes = <<>> THEN 0
    ELSE FromBigEndian(SubSeq(bytes, 1, Len(bytes) - 1)) * 256 + bytes[Len(bytes)]

UnpackField(bytes, signed) ==
    LET u == FromBigEndian(bytes)
    IN  IF signed /\ u >= SignedLimit(Len(bytes))
        THEN u - 2 * SignedLimit(Len(bytes)) ELSE u

\* the five values Stream._send packs: msg.reply_to or 0, len(msg.data)
HeaderValues(msg) ==
    <<msg.dst_id, msg.src_id, msg.handle,
      IF msg.reply_to = None \/ msg.reply_to = 0 THEN 0 ELSE msg.reply_to,
      Len(msg.data)>>

\* struct.pack('>hhLLL', ...) succeeds
Packable(msg) ==
    \A i \in 1..Len(HEADER_FMT) :
        FitsField(HeaderValues(msg)[i], HEADER_FMT[i], HEADER_SIGNED[i])

RECURSIVE PackFields(_, _)
PackFields(vals, i) ==
    IF i > Len(HEADER_FMT) THEN <<>>
    ELSE PackField(vals[i], HEADER_FMT[i], HEADER_SIGNED[i]) \o PackFields(vals, i + 1)

\* struct.pack('>hhLLL', ...) + msg.data
Pack(msg) == PackFields(HeaderValues(msg), 1) \o msg.data

\* offset of header field i in the header (0-based)
FieldOffset(i) == SumSeq(SubSeq(HEADER_FMT, 1, i - 1))

\* struct.unpack(HEADER_FMT, header): the five values
Unpack(header) ==
    [i \in 1..Len(HEADER_FMT) |->
        UnpackField(SubSeq(header, FieldOffset(i) + 1, FieldOffset(i) + HEADER_FMT[i]),
                    HEADER_SIGNED[i])]

-----------------------------------------------------------------------------
(* Stream: the receive half.                                               *)

\* Stream._receive_one on the buffer buf: whether a message was parsed, the
\* message, and the buffer left.
Bad_receive_one(buf) ==
    IF Len(buf) < HEADER_LEN THEN [ok |-> FALSE, buf |-> buf]
    ELSE LET h == Unpack(SubSeq(buf, 1, HEADER_LEN))
         IN  IF Len(buf) - HEADER_LEN < h[5] THEN [ok |-> FALSE, buf |-> buf]
             ELSE [ok |-> TRUE,
                   msg |-> [dst_id |-> h[1], src_id |-> h[2], handle |-> h[3],
                            reply_to |-> h[4],
                            data |-> SubSeq(buf, HEADER_LEN + 1, HEADER_LEN + h[5])],
                   buf |-> SubSeq(buf, HEADER_LEN + 1, Len(buf))]
_receive_one(buf) ==
    IF Len(buf) < HEADER_LEN THEN [ok |-> FALSE, buf |-> buf]
    ELSE LET h == Unpack(SubSeq(buf, 1, HEADER_LEN))
         IN  IF Len(buf) - HEADER_LEN < h[5] THEN [ok |-> FALSE, buf |-> buf]
             ELSE [ok |-> TRUE,
                   msg |-> [dst_id |-> h[1], src_id |-> h[2], handle |-> h[3],
                            reply_to |-> h[4],
                            data |-> SubSeq(buf, HEADER_LEN + 1, HEADER_LEN + h[5])],
                   buf |-> SubSeq(buf, HEADER_LEN + h[5] + 1, Len(buf))]

RECURSIVE ReceiveLoop(_, _)
\* `while self._receive_one(broker): pass`: the messages handed to the
\* router, in order, and the buffer left
ReceiveLoop(buf, msgs) ==
    LET r == _receive_one(buf)
    IN  IF r.ok THEN ReceiveLoop(r.buf, Append(msgs, r.msg))
        ELSE [msgs |-> msgs, buf |-> buf]

-----------------------------------------------------------------------------
(* Handles, streams, contexts and payloads of the router layer.            *)

GET_MODULE == 100
CALL_FUNCTION == 101
ADD_ROUTE == 103
SHUTDOWN == 105

\* The streams a process may hold: the one to its parent, and one to a child.
Streams == {"parent", "s1"}

\* dict.get() finding no stream
NoStream == "None"

\* the peer ids in play: the master (0), three slaves, and an id (7) that
\* no route table ever holds
PeerIds == {0, 1, 2, 3, 7}

\* A payload: `kind` names what Message.unpickle() or the handler's own
\* parse makes of it; an ADD_ROUTE payload '<target>\x00<via>' carries ids.
Data(kind) == [kind |-> kind, target |-> 0, via |-> 0]
RouteData(t, v) == [kind |-> "route", target |-> t, via |-> v]

\* the _DEAD singleton as a handler receives it: not a Message
_DEAD == [dst_id |-> None, src_id |-> None, handle |-> None, reply_to |-> None,
          data |-> Data("_DEAD")]

\* A Context object: its context_id, and which instance it is: the one the
\* router holds in _context_by_id ("registered") or another Context built
\* for the same id ("other": Context(router, id) or an unpickled one).
ContextObjs == [context_id : PeerIds, inst : {"registered", "other"}]
Registered(id) == [context_id |-> id, inst |-> "registered"]
\* respondent=None
NoContext == [context_id |-> None, inst |-> ""]

\* A handler function: Receiver._on_receive of the receiver at handle recv,
\* or a named handler (recv 0).
Fn(kind) == [kind |-> kind, recv |-> 0]
ReceiverFn(h) == [kind |-> "Receiver._on_receive", recv |-> h]

\* dict helpers
Lookup(f, k) == IF k \in DOMAIN f THEN f[k] ELSE NoStream
Without(f, k) == [x \in DOMAIN f \ {k} |-> f[x]]
With(f, k, v) == [x \in DOMAIN f \cup {k} |-> IF x = k THEN v ELSE f[x]]

\* the empty dict
EmptyDict == [x \in {} |-> NoStream]

\* no message (a step that carries none)
NoMsg == [dst_id |-> None, src_id |-> None, handle |-> None, reply_to |-> None,
          data |-> Data("")]

\* a deferred call waiting in Broker._queue
Deferred(func, stream, msg) == [func |-> func, stream |-> stream, msg |-> msg]

\* The master process after mitogen.master.Router() is built: no parent, the
\* ADD_ROUTE handler of core.Router.__init__ and the ModuleResponder's
\* GET_MODULE handler.  (The IdAllocator's and the LogForwarder's handlers
\* are not modelled, and no message for their handles is ever fed in.)
MasterConfig ==
    [ context_id |-> 0, parent_id |-> None,
      _stream_by_id |-> EmptyDict, _context_by_id |-> EmptyDict,
      _handle_map |-> With(With(EmptyDict,
                        ADD_ROUTE, [persist |-> TRUE, fn |-> Fn("_on_add_route")]),
                        GET_MODULE, [persist |-> TRUE, fn |-> Fn("_on_get_module")]),
      side_fd |-> [s \in Streams |-> "new"],
      Broker_queue |-> <<>>,
      Receiver_queue |-> EmptyDict ]

\* A slave (context 1, child of the master) when ExternalContext.main reaches
\* _dispatch_calls: _setup_master registered SHUTDOWN and the CALL_FUNCTION
\* channel, and main registered the parent Context with the parent stream
\* from the main thread, which deferred _readers.add.
ChildConfig ==
    [ context_id |-> 1, parent_id |-> 0,
      _stream_by_id |-> With(EmptyDict, 0, "parent"),
      _context_by_id |-> With(EmptyDict, 0, Registered(0)),
      _handle_map |-> With(With(With(EmptyDict,
                        ADD_ROUTE, [persist |-> TRUE, fn |-> Fn("_on_add_route")]),
                        SHUTDOWN, [persist |-> TRUE, fn |-> Fn("_on_shutdown_msg")]),
                        CALL_FUNCTION, [persist |-> TRUE, fn |-> ReceiverFn(CALL_FUNCTION)]),
      side_fd |-> [s \in Streams |-> IF s = "parent" THEN "open" ELSE "new"],
      Broker_queue |-> <<Deferred("_readers.add", "parent", NoMsg)>>,
      Receiver_queue |-> With(EmptyDict, CALL_FUNCTION, <<>>) ]

\* the router-layer variables of a process that starts in configuration cfg
Started(cfg) ==
    /\ context_id = cfg.context_id
    /\ parent_id = cfg.parent_id
    /\ _stream_by_id = cfg._stream_by_id
    /\ _context_by_id = cfg._context_by_id
    /\ _handle_map = cfg._handle_map
    /\ _last_handle = 1000
    /\ _signals = [c \in ContextObjs |-> <<>>]
    /\ side_fd = cfg.side_fd
    /\ out_msgs = [s \in Streams |-> <<>>]
    /\ _readers = {}
    /\ _writers = {}
    /\ _alive = TRUE
    /\ Broker_queue = cfg.Broker_queue
    /\ receivers = EmptyDict
    /\ Receiver_queue = cfg.Receiver_queue
    /\ peer_got = [s \in Streams |-> {}]
    /\ nrecv = 0

\* the broker thread in its main loop, nothing recorded yet
BrokerIdle ==
    /\ pc = "main"
    /\ events = <<>>
    /\ deadline_passed = FALSE
    /\ wake_pipe = 0

\* the variables of the layers a specification does not exercise
\* the dispatch loop of a slave, waiting for its first message
DispatchIdle == dispatch_pc = "running" /\ taken = 0 /\ replies = <<>>

\* the threads that call IdAllocator.allocate in the master: two caller
\* threads in connect or proxy_connect, and the broker thread in
\* on_allocate_id
Threads == {"caller1", "caller2", "broker"}

\* IdAllocator.__init__, and no peer yet
IdsIdle ==
    /\ next_id = 1
    /\ lock = "free"
    /\ alloc = [t \in Threads |-> [pc |-> "idle", id_ |-> 0, parent |-> 0]]
    /\ handed = <<>>
    /\ peers = {}

\* the Select objects and the Receivers of the application
Selects == {"sel_a", "sel_b", "sel_c"}
Receivers == {"recv"}

\* notify = None
NoOwner == "None"

\* Select.__init__(oneshot=...) for every Select, and fresh Receivers
SelectsIdle ==
    /\ _receivers = [sel \in Selects |-> <<>>]
    /\ notify = [o \in Selects \cup Receivers |-> NoOwner]
    /\ Select_queue = [sel \in Selects |-> <<>>]
    /\ recv_msgs = [r \in Receivers |-> 0]
    /\ \E oneshot \in BOOLEAN : _oneshot = [sel \in Selects |-> oneshot]
    /\ adding = [sel \in Selects |-> NoOwner]
    /\ getting = [sel \in Selects |-> FALSE]

\* the Selects as the other specifications leave them
SelectsUnused == SelectsIdle /\ \A sel \in Selects : _oneshot[sel]

\* the fullnames requested: one the master can find, one it cannot
Fullnames == {"found", "missing"}

\* An Importer built without core_src and a ModuleForwarder that has seen no
\* request.
ImportIdle ==
    /\ _cache = [n \in Fullnames |-> "absent"]
    /\ fwd_handlers = {}
    /\ to_parent = <<>>
    /\ nanswered = 0
    /\ to_child = <<>>
    /\ load_pc = "idle"
    /\ load_name = "None"
    /\ Importer_reply = "none"
    /\ loads = <<>>

\* a Python string, by identity and length; NoStr stands for None
Str(id, len) == [id |-> id, len |-> len]
NoStr == Str("None", 0)

\* a Python object as far as pickling goes: its class and the fields its
\* __reduce__ passes on
Obj(cls, id, name, s) == [cls |-> cls, context_id |-> id, name |-> name, s |-> s]
NoObj == Obj("", None, NoStr, NoStr)

\* a pickle: the NONE opcode, or GLOBAL module func followed by the
\* argument tuple and REDUCE
Pickle(op, module, func, args) ==
    [op |-> op, module |-> module, func |-> func, args |-> args]
NoPickle == Pickle("", "", "", <<>>)

NoResult == [exc |-> "", value |-> NoObj, called |-> {}]

PickleIdle ==
    /\ pickle_pc = "idle"
    /\ obj = NoObj
    /\ Message_data = NoPickle
    /\ Message_router = FALSE
    /\ unpickled = NoResult

\* no chunk read yet
NoStep == [buf |-> <<>>, sent_before |-> FALSE, outcome |-> ""]

\* a Stream object before connect()
BootNew ==
    /\ boot_pc = "new"
    /\ password_sent = FALSE
    /\ nreads = 0
    /\ last_step = NoStep
    /\ ec0_read = FALSE
    /\ ec1_read = FALSE
    /\ tty_out = <<>>
    /\ preamble_written = 0
    /\ raised = ""
    /\ child_proc = "none"
    /\ registered = FALSE

BootIdle == klass = "master.Stream" /\ password = "None" /\ BootNew

NoServe == [fullname |-> "", source |-> <<>>]

MainIdle == main_src = <<>> /\ served = NoServe

\* The master (0) with one child (1) connected by Router.connect: the child
\* is registered at the master, and has its parent registered.
TreeIdle ==
    /\ routes = (0 :> (1 :> 1)) @@ (1 :> (0 :> 0))
    /\ via_of = (1 :> None)
    /\ parent_of = (1 :> 0)
    /\ chan = (1 :> <<>>)
    /\ tree_pc = "idle"
    /\ connecting = [id |-> None, via |-> None]
    /\ call_returned = FALSE
    /\ delivered = <<>>
    /\ bounced = <<>>
    /\ nsent = 0

TransmitIdle ==
    /\ transmit_fd = "open"
    /\ tx_output_buf = <<>>
    /\ tx_writers = FALSE
    /\ frame_lens = <<>>
    /\ write_log = <<>>
    /\ send_failed = 0
    /\ tx_pc = ""

\* At most this many slaves hang below the master.
MaxSlaves == 3

CascadePeers == 0..MaxSlaves

\* the streams of peer p in a tree: to its parent and to its children
StreamsOf(par, p) ==
    {q \in CascadePeers : (p # 0 /\ par[p] = q) \/ (q # 0 /\ par[q] = p)}

\* Every peer connected and registered, every broker in its main loop,
\* nothing queued or in flight.
CascadeNew(par) ==
    /\ tree_parent = par
    /\ alive_of = [p \in CascadePeers |-> TRUE]
    /\ loop_pc = [p \in CascadePeers |-> "loop"]
    /\ readers_of = [p \in CascadePeers |-> StreamsOf(par, p)]
    /\ output_of = [p \in CascadePeers |-> [q \in CascadePeers |-> 0]]
    /\ inflight = [p \in CascadePeers |-> [q \in CascadePeers |-> 0]]
    /\ closed_end = [p \in CascadePeers |-> [q \in CascadePeers |-> FALSE]]
    /\ shutdown_cause = [p \in 1..MaxSlaves |-> ""]

CascadeIdle == CascadeNew([p \in 1..MaxSlaves |-> 0])

\* the loaded modules that are not part of the standard library
Modules == {"pkg", "pkg.a", "b"}

RelatedIdle ==
    /\ imports_of = [m \in Modules |-> {}]
    /\ related_pc = "idle"
    /\ related_root = ""
    /\ related_stack = <<>>
    /\ related_found = {}
    /\ related_turns = 0

LayersIdle ==
    /\ BrokerIdle /\ DispatchIdle /\ IdsIdle /\ SelectsUnused /\ ImportIdle
    /\ PickleIdle
    /\ BootIdle
    /\ MainIdle
    /\ TreeIdle
    /\ TransmitIdle
    /\ CascadeIdle
    /\ RelatedIdle

-----------------------------------------------------------------------------
(* SpecFrame: one stream, from Stream._send through the transmit queue,    *)
(* the byte pipe and on_receive to the router.                             *)

\* The messages the application passes to _send.  Fields sit on both sides
\* of what an 'h' field can carry; payloads are 0 to 2 bytes long.
FrameMsgs ==
    { [dst_id |-> 1, src_id |-> 0, handle |-> 101, reply_to |-> 1000, data |-> <<7, 8>>],
      [dst_id |-> 0, src_id |-> 1, handle |-> 1000, reply_to |-> None, data |-> <<>>],
      [dst_id |-> 32767, src_id |-> -1, handle |-> 2147483647, reply_to |-> 0,
       data |-> <<255>>],
      [dst_id |-> 32768, src_id |-> 0, handle |-> 101, reply_to |-> 1001, data |-> <<>>] }

RECURSIVE SeqsUpTo(_, _)
\* the sequences over S of length at most n
SeqsUpTo(S, n) ==
    IF n = 0 THEN {<<>>}
    ELSE LET shorter == SeqsUpTo(S, n - 1)
         IN  shorter \cup {Append(q, x) : q \in shorter, x \in S}

Min(a, b) == IF a < b THEN a ELSE b

FrameInit ==
    /\ tosend \in SeqsUpTo(FrameMsgs, MaxFrames)
    /\ encoded = <<>>
    /\ struct_error = <<>>
    /\ _output_buf = <<>>
    /\ wire = <<>>
    /\ _input_buf = <<>>
    /\ routed = <<>>
    /\ eof = FALSE
    /\ Started(MasterConfig)
    /\ LayersIdle

\* Stream._send(msg): pack the header, append header + data to _output_buf.
\* struct.pack raising leaves the queue as it was.
_send ==
    /\ tosend # <<>>
    /\ tosend' = Tail(tosend)
    /\ IF Packable(Head(tosend))
       THEN /\ _output_buf' = Append(_output_buf, Pack(Head(tosend)))
            /\ encoded' = Append(encoded, Head(tosend))
            /\ UNCHANGED struct_error
       ELSE /\ struct_error' = Append(struct_error, Head(tosend))
            /\ UNCHANGED <<_output_buf, encoded>>
    /\ UNCHANGED <<wire, _input_buf, routed, eof, routerVars, layerVars>>

\* Stream.on_transmit with os.write accepting `written` bytes of the head
\* frame (Side.write offers it at most CHUNK_SIZE bytes); a short write puts
\* the rest back at the head of the queue.
on_transmit ==
    /\ _output_buf # <<>>
    /\ \E written \in 1..Min(Len(Head(_output_buf)), CHUNK_SIZE) :
         LET buf == Head(_output_buf)
         IN  /\ wire' = wire \o SubSeq(buf, 1, written)
             /\ _output_buf' =
                  IF written # Len(buf)
                  THEN <<SubSeq(buf, written + 1, Len(buf))>> \o Tail(_output_buf)
                  ELSE Tail(_output_buf)
    /\ UNCHANGED <<tosend, encoded, struct_error, _input_buf, routed, eof, routerVars, layerVars>>

\* Stream.on_receive with os.read returning n >= 1 bytes (at most
\* CHUNK_SIZE): append them, then parse every complete message.
on_receive ==
    /\ ~eof
    /\ wire # <<>>
    /\ \E n \in 1..Min(Len(wire), CHUNK_SIZE) :
         LET r == ReceiveLoop(_input_buf \o SubSeq(wire, 1, n), <<>>)
         IN  /\ wire' = SubSeq(wire, n + 1, Len(wire))
             /\ _input_buf' = r.buf
             /\ routed' = routed \o r.msgs
    /\ UNCHANGED <<tosend, encoded, struct_error, _output_buf, eof, routerVars, layerVars>>

\* Stream.on_receive with a zero-byte read (the peer closed its end): nothing
\* is appended, the parse loop finds nothing new, and the stream disconnects.
on_receive_eof ==
    /\ ~eof
    /\ wire = <<>>
    /\ LET r == ReceiveLoop(_input_buf, <<>>)
       IN  /\ _input_buf' = r.buf
           /\ routed' = routed \o r.msgs
    /\ eof' = TRUE
    /\ UNCHANGED <<tosend, encoded, struct_error, _output_buf, wire, routerVars, layerVars>>

FrameNext ==
    \/ _send
    \/ on_transmit
    \/ on_receive
    \/ on_receive_eof

SpecFrame == FrameInit /\ [][FrameNext]_vars

-----------------------------------------------------------------------------
(* The router layer: one peer's Router, Broker, Streams, Contexts and      *)
(* Receivers, with a packed frame represented by its message.              *)

\* The state the router code runs on, as one value; exc is the exception
\* propagating out of the call just made ("" for none).
St ==
    [ _stream_by_id |-> _stream_by_id, _context_by_id |-> _context_by_id,
      _handle_map |-> _handle_map, _last_handle |-> _last_handle,
      _signals |-> _signals, side_fd |-> side_fd, out_msgs |-> out_msgs,
      _readers |-> _readers, _writers |-> _writers, _alive |-> _alive,
      Broker_queue |-> Broker_queue, Receiver_queue |-> Receiver_queue,
      logged |-> {}, invoked |-> <<>>, exc |-> "" ]

Log(st, what) == [st EXCEPT !.logged = @ \cup {what}]
Raise(st, e) == [st EXCEPT !.exc = e]

\* Broker.start_transmit, called on the broker thread: the assertion on the
\* transmit side's fd, then _writers.add at once.
start_transmit(st, s) ==
    IF st.side_fd[s] # "open" THEN Raise(st, "AssertionError")
    ELSE [st EXCEPT !._writers = @ \cup {s}]

\* Stream._send: append the packed frame, then start_transmit.
Stream_send(st, s, msg) ==
    start_transmit([st EXCEPT !.out_msgs[s] = Append(@, msg)], s)

\* Router.add_route
add_route(st, target_id, via_id) ==
    IF via_id \in DOMAIN st._stream_by_id
    THEN [st EXCEPT !._stream_by_id = With(@, target_id, st._stream_by_id[via_id])]
    ELSE Log(st, "cant add route")

\* Router._on_add_route: map(int, msg.data.split('\x00')) raises ValueError
\* on a payload that is not two integers.
_on_add_route(st, msg) ==
    IF msg = _DEAD THEN st
    ELSE IF msg.data.kind # "route" THEN Raise(st, "ValueError")
    ELSE add_route(st, msg.data.target, msg.data.via)

\* Receiver._on_receive of the receiver at handle h
Receiver_on_receive(st, h, msg) ==
    [st EXCEPT !.Receiver_queue[h] = Append(@, msg)]

\* Router.add_handler
add_handler(st, fn, handle, persist, respondent) ==
    LET h   == IF handle = None \/ handle = 0 THEN st._last_handle ELSE handle
        st1 == [st EXCEPT !._last_handle = IF h = handle THEN @ ELSE @ + 1,
                          !._handle_map = With(@, h, [persist |-> persist, fn |-> fn])]
    IN  IF respondent # NoContext
        THEN [st1 EXCEPT !._signals[respondent] = Append(@, [handle |-> h, fn |-> fn])]
        ELSE st1

\* _on_shutdown_msg without the test of src_id
Bad_on_shutdown_msg(st, msg) == [st EXCEPT !._alive = FALSE]

\* ExternalContext._on_shutdown_msg
_on_shutdown_msg(st, msg) ==
    IF msg.src_id # parent_id THEN Log(st, "Ignoring SHUTDOWN from non-parent")
    ELSE [st EXCEPT !._alive = FALSE]

RECURSIVE _async_route(_, _, _)

\* Router.route called on the broker thread: Broker.defer runs
\* _async_route(msg) at once.
route_on_broker(st, msg) == _async_route(st, msg, NoStream)

\* Message.pickled(obj, dst_id=msg.src_id, handle=msg.reply_to)
Reply(msg, kind) ==
    [dst_id |-> msg.src_id, src_id |-> context_id, handle |-> msg.reply_to,
     reply_to |-> None, data |-> Data(kind)]

\* _on_get_module without its except clause: the ImportError of a module
\* that cannot be found leaves the handler and nothing is routed.
Bad_on_get_module(st, msg) ==
    IF msg = _DEAD THEN st
    ELSE IF msg.data.kind = "fullname of a module"
    THEN route_on_broker(st, Reply(msg, "module"))
    ELSE Raise(st, "ImportError")

\* ModuleResponder._on_get_module: the reply is routed inside the try block,
\* so an exception out of route() makes the except clause route the null
\* reply as well.
_on_get_module(st, msg) ==
    IF msg = _DEAD THEN st
    ELSE IF msg.data.kind = "fullname of a module"
    THEN LET st1 == route_on_broker(st, Reply(msg, "module"))
         IN  IF st1.exc = "" THEN st1
             ELSE route_on_broker([st1 EXCEPT !.exc = ""], Reply(msg, "null"))
    ELSE route_on_broker(st, Reply(msg, "null"))

\* the call fn(msg) of a handler
CallHandler(st, fn, msg) ==
    CASE fn.kind = "Receiver._on_receive" -> Receiver_on_receive(st, fn.recv, msg)
      [] fn.kind = "_on_add_route" -> _on_add_route(st, msg)
      [] fn.kind = "_on_get_module" -> _on_get_module(st, msg)
      [] fn.kind = "_on_shutdown_msg" -> _on_shutdown_msg(st, msg)
      [] fn.kind = "reuses its handle" ->
            add_handler(st, fn, msg.handle, TRUE, NoContext)

\* A faulty _invoke: the non-persistent handler is removed after its call.
Bad_invoke(st, msg) ==
    IF msg.handle \notin DOMAIN st._handle_map THEN Log(st, "invalid handle")
    ELSE LET e   == st._handle_map[msg.handle]
             st1 == [st EXCEPT !.invoked = Append(@, [handle |-> msg.handle, fn |-> e.fn])]
             st2 == CallHandler(st1, e.fn, msg)
             st3 == IF e.persist THEN st2
                    ELSE [st2 EXCEPT !._handle_map = Without(@, msg.handle)]
         IN  IF st3.exc # "" THEN Log([st3 EXCEPT !.exc = ""], "handler crashed")
             ELSE st3

\* _invoke without its except clause: what the handler raises leaves
\* _invoke.
Bad_invoke_uncaught(st, msg) ==
    IF msg.handle \notin DOMAIN st._handle_map THEN Log(st, "invalid handle")
    ELSE LET e   == st._handle_map[msg.handle]
             st1 == IF e.persist THEN st
                    ELSE [st EXCEPT !._handle_map = Without(@, msg.handle)]
         IN  CallHandler(
                 [st1 EXCEPT !.invoked = Append(@, [handle |-> msg.handle,
                                                     fn |-> e.fn])],
                 e.fn, msg)

\* Router._invoke
_invoke(st, msg) ==
    IF msg.handle \notin DOMAIN st._handle_map THEN Log(st, "invalid handle")
    ELSE LET e   == st._handle_map[msg.handle]
             st1 == IF e.persist THEN st
                    ELSE [st EXCEPT !._handle_map = Without(@, msg.handle)]
             st2 == CallHandler(
                        [st1 EXCEPT !.invoked = Append(@, [handle |-> msg.handle,
                                                            fn |-> e.fn])],
                        e.fn, msg)
         IN  IF st2.exc # "" THEN Log([st2 EXCEPT !.exc = ""], "handler crashed")
             ELSE st2

\* A faulty _async_route: no fall-back to the parent stream.
Bad_async_route(st, msg, stream) ==
    IF msg.dst_id = context_id THEN _invoke(st, msg)
    ELSE LET out == Lookup(st._stream_by_id, msg.dst_id)
         IN  IF out = NoStream THEN Log(st, "no route")
             ELSE Stream_send(st, out, msg)

\* Router._async_route; `stream` is NoStream for a message routed locally.
_async_route(st, msg, stream) ==
    LET parent_stream == Lookup(st._stream_by_id, parent_id)
        expected_stream ==
            IF msg.src_id \in DOMAIN st._stream_by_id
            THEN st._stream_by_id[msg.src_id] ELSE parent_stream
        st1 == IF stream # NoStream /\ stream # expected_stream
               THEN Log(st, "bad source") ELSE st
    IN  IF msg.dst_id = context_id THEN _invoke(st1, msg)
        ELSE LET byid == Lookup(st1._stream_by_id, msg.dst_id)
                 out  == IF byid = NoStream
                         THEN Lookup(st1._stream_by_id, parent_id) ELSE byid
             IN  IF out = NoStream THEN Log(st1, "no route")
                 ELSE Stream_send(st1, out, msg)

\* A faulty closure: it does not look whether the handle is still registered.
Bad_on_disconnect_listener(st, l) ==
    LET st1 == CallHandler(st, l.fn, _DEAD)
    IN  [st1 EXCEPT !._handle_map = Without(@, l.handle)]

\* the closure add_handler listens with on its respondent
on_disconnect_listener(st, l) ==
    IF l.handle \in DOMAIN st._handle_map
    THEN LET st1 == CallHandler(st, l.fn, _DEAD)
         IN  [st1 EXCEPT !._handle_map = Without(@, l.handle)]
    ELSE st

RECURSIVE fire_disconnect(_, _)
\* fire(context, 'disconnect'): the listeners, in the order they were added
fire_disconnect(st, listeners) ==
    IF listeners = <<>> THEN st
    ELSE fire_disconnect(on_disconnect_listener(st, Head(listeners)), Tail(listeners))

\* Context.on_disconnect: mitogen.core.Context (the parent's Context in a
\* slave) also shuts the broker down; mitogen.master.Context does not.
Context_on_disconnect(st, ctx) ==
    LET st1 == fire_disconnect(st, st._signals[ctx])
    IN  IF ctx.context_id = parent_id THEN [st1 EXCEPT !._alive = FALSE] ELSE st1

RECURSIVE Router_on_disconnect_loop(_, _, _)
Router_on_disconnect_loop(st, stream, ids) ==
    IF ids = {} THEN st
    ELSE LET id == CHOOSE x \in ids : \A y \in ids : x <= y
             st1 == IF Lookup(st._stream_by_id, id) = stream
                    THEN Context_on_disconnect(
                             [st EXCEPT !._stream_by_id = Without(@, id)],
                             st._context_by_id[id])
                    ELSE st
         IN  Router_on_disconnect_loop(st1, stream, ids \ {id})

\* Router.on_disconnect: for every Context of _context_by_id routed over the
\* stream, drop the route and call the Context's on_disconnect.
Router_on_disconnect(st, stream) ==
    Router_on_disconnect_loop(st, stream, DOMAIN st._context_by_id)

\* Stream.on_disconnect: BasicStream.on_disconnect (leave the broker's sets,
\* close both sides), then Router.on_disconnect.
Stream_on_disconnect(st, s) ==
    Router_on_disconnect(
        [st EXCEPT !._readers = @ \ {s}, !._writers = @ \ {s}, !.side_fd[s] = "closed"],
        s)

-----------------------------------------------------------------------------
(* SpecRouter: the caller threads, the broker thread and the peers of one  *)
(* process.                                                                *)

\* At most this many frames arrive from the peers in one behaviour.
MaxRecv == 1

\* At most this many handles are allocated from Router._last_handle.
MaxHandles == 1

\* the context id at the far end of a stream
StreamPeer(s) == IF s = "s1" THEN 2 ELSE parent_id

\* the handles Router._last_handle can give out
Handles == 1000..(1000 + MaxHandles - 1)

\* A frame as a peer may write it: for this process (to one of the well-known
\* handles, of which each configuration registers only some, or to a reply
\* handle) or for another one, with a source id that may or may not be one
\* routed over the sending stream.
FramesIn ==
    LET srcs == {0, 2}
        here(h, kinds) ==
            { [dst_id |-> context_id, src_id |-> src, handle |-> h, reply_to |-> 5,
               data |-> d] : src \in srcs, d \in kinds }
    IN  here(ADD_ROUTE, {RouteData(3, 2), RouteData(3, 7), Data("garbage")})
        \cup here(GET_MODULE, {Data("fullname of a module"), Data("fullname unknown")})
        \cup here(CALL_FUNCTION, {Data("call")})
        \cup here(SHUTDOWN, {Data("")})
        \cup UNION { here(h, {Data("value")}) : h \in Handles }
        \cup { [dst_id |-> dst, src_id |-> src, handle |-> CALL_FUNCTION,
                reply_to |-> 5, data |-> Data("call")] :
               dst \in {0, 2, 7} \ {context_id}, src \in srcs }

\* the router's and the broker's variables take the values the code left in st
InstallRouter(st) ==
    /\ _stream_by_id' = st._stream_by_id
    /\ _context_by_id' = st._context_by_id
    /\ _handle_map' = st._handle_map
    /\ _last_handle' = st._last_handle
    /\ _signals' = st._signals
    /\ side_fd' = st.side_fd
    /\ out_msgs' = st.out_msgs
    /\ _readers' = st._readers
    /\ _writers' = st._writers
    /\ _alive' = st._alive
    /\ Broker_queue' = st.Broker_queue
    /\ Receiver_queue' = st.Receiver_queue
    /\ UNCHANGED <<context_id, parent_id>>

\* a step that touches the router and the broker only
Install(st) ==
    /\ InstallRouter(st)
    /\ UNCHANGED <<frameVars, layerVars>>

\* Broker.defer called from a thread that is not the broker's
defer(st, call) == [st EXCEPT !.Broker_queue = Append(@, call)]

\* Router.register
register(st, context, stream) ==
    defer([st EXCEPT !._stream_by_id = With(@, context.context_id, stream),
                     !._context_by_id = With(@, context.context_id, context)],
          Deferred("_readers.add", stream, NoMsg))

\* master.Router._connect, called by a caller thread (connect, or
\* _proxy_connect on a slave's main thread): the stream connects, then
\* register(context, stream).
_connect(s) ==
    /\ s # "parent"
    /\ side_fd[s] = "new"
    /\ Install(register([St EXCEPT !.side_fd[s] = "open"],
                        Registered(StreamPeer(s)), s))
    /\ UNCHANGED <<receivers, peer_got, nrecv>>

\* Context.send_async on a caller thread (directly or from master
\* Context.call_async): a Receiver with the Context as respondent takes the
\* next handle, and the message is routed, which defers _async_route to the
\* broker thread.
send_async(ctx) ==
    /\ _last_handle \in Handles
    /\ LET h   == _last_handle
           msg == [dst_id |-> ctx.context_id, src_id |-> context_id,
                   handle |-> CALL_FUNCTION, reply_to |-> h, data |-> Data("call")]
           st1 == add_handler([St EXCEPT !.Receiver_queue = With(@, h, <<>>)],
                              ReceiverFn(h), None, FALSE, ctx)
           st2 == defer(st1, Deferred("_async_route", NoStream, msg))
       IN  /\ Install(st2)
           /\ receivers' = With(receivers, h,
                                [respondent |-> ctx, got |-> 0, outcome |-> "waiting"])
    /\ UNCHANGED <<peer_got, nrecv>>

\* Router.add_handler(fn, persist=False) called by the application on a
\* caller thread, with a handler that, when called, registers itself again
\* under the handle it was called for, this time with persist=True.
add_handler_call ==
    /\ _last_handle \in Handles
    /\ Install(add_handler(St, Fn("reuses its handle"), None, FALSE, NoContext))
    /\ UNCHANGED <<receivers, peer_got, nrecv>>

\* Context.send_async with reply handle checks first whose thread it is on
\* and registers the Receiver after the check
Bad_send_async_on(st, ctx, msg, thread) ==
    LET h   == st._last_handle
        st1 == add_handler([st EXCEPT !.Receiver_queue = With(@, h, <<>>)],
                           ReceiverFn(h), None, FALSE, ctx)
    IN  IF thread = "broker" THEN Raise(st1, "SystemError")
        ELSE defer(st1, Deferred("_async_route", NoStream,
                                 [msg EXCEPT !.dst_id = ctx.context_id,
                                             !.reply_to = h]))

\* Context.send_async(msg) on the given thread: SystemError on the broker
\* thread; otherwise a Receiver takes the next handle, which becomes the
\* message's reply_to, and Context.send routes the message.
send_async_on(st, ctx, msg, thread) ==
    IF thread = "broker" THEN Raise(st, "SystemError")
    ELSE LET h   == st._last_handle
             st1 == add_handler([st EXCEPT !.Receiver_queue = With(@, h, <<>>)],
                                ReceiverFn(h), None, FALSE, ctx)
         IN  defer(st1, Deferred("_async_route", NoStream,
                                 [msg EXCEPT !.dst_id = ctx.context_id,
                                             !.reply_to = h]))

\* master Context.call_async(fn) on the given thread
call_async_on(st, ctx, thread) ==
    send_async_on(st, ctx,
                  [dst_id |-> None, src_id |-> context_id, handle |-> CALL_FUNCTION,
                   reply_to |-> None, data |-> Data("call")],
                  thread)

RECURSIVE RunQueue(_)
\* the loop of Broker._run_defer over the queued calls
RunQueue(st) ==
    IF st.Broker_queue = <<>> THEN st
    ELSE LET call == Head(st.Broker_queue)
             st1  == [st EXCEPT !.Broker_queue = Tail(@)]
             st2  == CASE call.func = "_readers.add" ->
                            [st1 EXCEPT !._readers = @ \cup {call.stream}]
                       [] call.func = "_async_route" ->
                            _async_route(st1, call.msg, NoStream)
                       [] call.func = "fn" -> st1
                       [] call.func = "raising fn" -> Raise(st1, "Exception")
                       [] call.func = "fn calling call_async" ->
                            call_async_on(st1, Registered(2), "broker")
         IN  RunQueue(IF st2.exc # ""
                      THEN Log([st2 EXCEPT !.exc = "", !._alive = FALSE],
                               "defer() crashed")
                      ELSE st2)

\* Broker._run_defer at the head of Broker._loop_once
_run_defer ==
    /\ _alive
    /\ Broker_queue # <<>>
    /\ Install(RunQueue(St))
    /\ UNCHANGED <<receivers, peer_got, nrecv>>

\* Broker._call(stream, stream.on_receive) for a read that completes the
\* frame of msg: _async_route(msg, stream); an exception out of it is logged
\* and disconnects the stream.
Receive(s, msg) ==
    LET st1 == _async_route(St, msg, s)
    IN  IF st1.exc # ""
        THEN Stream_on_disconnect(Log([st1 EXCEPT !.exc = ""], "stream crashed"), s)
        ELSE st1

_call_on_receive(s, msg) ==
    /\ _alive
    /\ s \in _readers
    /\ nrecv < MaxRecv
    /\ msg \in FramesIn
    /\ Install(Receive(s, msg))
    /\ nrecv' = nrecv + 1
    /\ UNCHANGED <<receivers, peer_got>>

\* The peer on stream s, having read this process's request with reply
\* handle h, answers it; the reply arrives as any frame does.
PeerReply(s, h, kind) ==
    /\ _alive
    /\ s \in _readers
    /\ h \in peer_got[s]
    /\ h \in DOMAIN _handle_map
    /\ LET msg == [dst_id |-> context_id, src_id |-> receivers[h].respondent.context_id,
                   handle |-> h, reply_to |-> None, data |-> Data(kind)]
       IN  Install(Receive(s, msg))
    /\ UNCHANGED <<receivers, peer_got, nrecv>>

\* Broker._call(stream, stream.on_receive) for a zero-byte read: the stream
\* disconnects.
_call_on_receive_eof(s) ==
    /\ _alive
    /\ s \in _readers
    /\ Install(Stream_on_disconnect(St, s))
    /\ UNCHANGED <<receivers, peer_got, nrecv>>

\* Broker._call(stream, stream.on_transmit) writing the whole head frame;
\* with the queue drained, stop_transmit.
_call_on_transmit(s) ==
    /\ _alive
    /\ s \in _writers
    /\ out_msgs[s] # <<>>
    /\ LET msg == Head(out_msgs[s])
           st1 == [St EXCEPT !.out_msgs[s] = Tail(@)]
           st2 == IF st1.out_msgs[s] = <<>>
                  THEN [st1 EXCEPT !._writers = @ \ {s}] ELSE st1
       IN  /\ Install(st2)
           /\ peer_got' =
                IF msg.src_id = context_id /\ msg.reply_to \in DOMAIN receivers
                THEN [peer_got EXCEPT ![s] = @ \cup {msg.reply_to}]
                ELSE peer_got
    /\ UNCHANGED <<receivers, nrecv>>

\* What Receiver.get makes of a queued item; raise_channelerror is True
\* unless the receiver came from call_async, which clears it.  A payload
\* naming a global that _find_global refuses makes msg.unpickle() raise
\* StreamError in the thread that called get.
GetOutcome(raise_channelerror, msg) ==
    IF msg = _DEAD THEN "ChannelError"
    ELSE IF msg.data.kind = "not whitelisted" THEN "StreamError"
    ELSE IF msg.data.kind = "_DEAD" /\ raise_channelerror THEN "ChannelError"
    ELSE IF msg.data.kind = "CallError" THEN "CallError"
    ELSE "value"

\* Receiver.get on a caller thread, returning once the queue holds an item
get(h) ==
    /\ h \in DOMAIN receivers
    /\ receivers[h].got < Len(Receiver_queue[h])
    /\ \E raise_channelerror \in BOOLEAN :
         receivers' = [receivers EXCEPT
            ![h].got = @ + 1,
            ![h].outcome = GetOutcome(raise_channelerror,
                                      Receiver_queue[h][receivers[h].got + 1])]
    /\ UNCHANGED <<context_id, parent_id, _stream_by_id, _context_by_id, _handle_map,
                   _last_handle, _signals, side_fd, out_msgs, _readers, _writers,
                   _alive, Broker_queue, Receiver_queue, peer_got, nrecv,
                   frameVars, layerVars>>

\* the Context objects a caller thread sends through: the registered ones,
\* and another Context object for the id of a connected child or the master
Reachable ==
    { Registered(id) : id \in DOMAIN _context_by_id }
    \cup { [context_id |-> id, inst |-> "other"] : id \in DOMAIN _stream_by_id }

RouterInit ==
    /\ \E cfg \in {MasterConfig, ChildConfig} : Started(cfg)
    /\ LayersIdle
    /\ tosend = <<>>
    /\ encoded = <<>>
    /\ struct_error = <<>>
    /\ _output_buf = <<>>
    /\ wire = <<>>
    /\ _input_buf = <<>>
    /\ routed = <<>>
    /\ eof = FALSE

RouterNext ==
    \/ \E s \in Streams : _connect(s)
    \/ \E ctx \in Reachable : send_async(ctx)
    \/ add_handler_call
    \/ _run_defer
    \/ \E s \in Streams, msg \in FramesIn : _call_on_receive(s, msg)
    \/ \E s \in Streams : _call_on_receive_eof(s)
    \/ \E s \in Streams : _call_on_transmit(s)

SpecRouter == RouterInit /\ [][RouterNext]_vars

\* SpecReply: requests and their replies only.  The application connects and
\* sends through the Contexts connect returned, the peers answer the requests
\* they have read and may disconnect, and the application waits in get().
ReplyNext ==
    \/ \E s \in Streams : _connect(s)
    \/ \E id \in DOMAIN _context_by_id : send_async(Registered(id))
    \/ _run_defer
    \/ \E s \in Streams, h \in Handles, kind \in {"value", "CallError", "_DEAD"} :
          PeerReply(s, h, kind)
    \/ \E s \in Streams : _call_on_receive_eof(s)
    \/ \E s \in Streams : _call_on_transmit(s)
    \/ \E h \in Handles : get(h)

\* Fair scheduling: the broker thread keeps running its loop, a caller
\* blocked in get() runs once an item is queued, and a peer that stays
\* connected replies.
ReplyFairness ==
    /\ WF_vars(_run_defer)
    /\ \A s \in Streams : WF_vars(_call_on_transmit(s))
    /\ \A s \in Streams, h \in Handles :
          WF_vars(\E kind \in {"value", "CallError", "_DEAD"} : PeerReply(s, h, kind))
    /\ \A h \in Handles : WF_vars(get(h))

SpecReply == RouterInit /\ [][ReplyNext]_vars /\ ReplyFairness

-----------------------------------------------------------------------------
(* SpecBroker: the life of the broker thread, from its main loop through   *)
(* Broker.shutdown() to the 'exit' signal, with caller threads deferring   *)
(* functions and calling shutdown(), and peers that may close their end.   *)

\* At most this many functions are deferred by caller threads.
MaxDefer == 2

\* the streams the broker polls: the Waker and the peer streams
BrokerStreams == Streams \cup {"waker"}

\* Side.keep_alive of a stream's receive side: cleared on a slave's parent
\* stream only
Side_keep_alive(s) == IF s = "parent" THEN 0 ELSE 1

RECURSIVE SumOver(_, _)
SumOver(S, n) ==
    IF S = {} THEN n
    ELSE LET x == CHOOSE y \in S : TRUE
         IN  SumOver(S \ {x}, n + Side_keep_alive(x))

\* Broker.keep_alive
keep_alive(st) ==
    SumOver(st._readers, 0) + (IF st.Broker_queue # <<>> THEN 1 ELSE 0)

\* an entry of the history: what happened, the stream or the function it
\* happened to, and a number
Ev(ev, stream, k) == [ev |-> ev, stream |-> stream, k |-> k]

\* a function deferred by a caller thread, with the number k it is known by
DeferredFn(kind, k) == Deferred(kind, NoStream, [NoMsg EXCEPT !.reply_to = k])

\* the functions caller threads defer: one that returns, one that raises,
\* and one that calls call_async on the Context of a child
DeferredKinds == {"fn", "raising fn", "fn calling call_async"}

IsDeferredFn(call) == call.func \in DeferredKinds

\* the history entries of one _run_defer over the queue
RunEvents(queue) ==
    LET fns == SelectSeq(queue, IsDeferredFn)
    IN  [i \in 1..Len(fns) |-> Ev("run", fns[i].func, fns[i].msg.reply_to)]

\* Broker.shutdown() called on the broker thread during a step that took
\* the state to st
ShutdownEvents(st) ==
    IF _alive /\ ~st._alive THEN <<Ev("shutdown()", NoStream, 0)>> ELSE <<>>

\* BasicStream.on_disconnect
BasicStream_on_disconnect(st, s) ==
    [st EXCEPT !._readers = @ \ {s}, !._writers = @ \ {s}, !.side_fd[s] = "closed"]

\* stream.on_disconnect(broker), by the class of the stream
on_disconnect_of(st, s) ==
    IF s = "waker" THEN BasicStream_on_disconnect(st, s)
    ELSE Stream_on_disconnect(st, s)

\* stream.on_shutdown(broker): BasicStream's for the Waker (disconnect at
\* once), core.Stream's for a slave's parent stream (nothing), and
\* master.Stream's for a child stream (send SHUTDOWN to the child).
on_shutdown_of(st, s) ==
    CASE s = "waker" -> BasicStream_on_disconnect(st, s)
      [] s = "parent" -> st
      [] OTHER ->
           Stream_send(st, s, [dst_id |-> StreamPeer(s), src_id |-> context_id,
                               handle |-> SHUTDOWN, reply_to |-> None,
                               data |-> Data("")])

\* Broker._call(stream, stream.on_shutdown)
_call_on_shutdown(st, s) ==
    LET st1 == on_shutdown_of(st, s)
    IN  IF st1.exc # ""
        THEN on_disconnect_of(Log([st1 EXCEPT !.exc = ""], "stream crashed"), s)
        ELSE st1

\* the Sides in self._readers | self._writers
Sides(st) ==
    {<<s, "receive_side">> : s \in st._readers}
    \cup {<<s, "transmit_side">> : s \in st._writers}

\* the orders in which a set can be iterated
Orders(S) ==
    {q \in [1..Cardinality(S) -> S] : \A x \in S : \E i \in DOMAIN q : q[i] = x}

\* The history lists the Sides of one loop over a set in one fixed order,
\* the loop's own order being any.
Listed(S) == CHOOSE q \in Orders(S) : TRUE

RECURSIVE OnShutdownEach(_, _)
\* for side in ...: self._call(side.stream, side.stream.on_shutdown)
OnShutdownEach(st, order) ==
    IF order = <<>> THEN st
    ELSE OnShutdownEach(_call_on_shutdown(st, Head(order)[1]), Tail(order))

RECURSIVE OnDisconnectEach(_, _)
\* for side in ...: side.stream.on_disconnect(self)
OnDisconnectEach(st, order) ==
    IF order = <<>> THEN st
    ELSE OnDisconnectEach(on_disconnect_of(st, Head(order)[1]), Tail(order))

\* Waker.wake from a thread other than the broker's: Side.write writes one
\* byte unless the side is closed
wake == IF side_fd["waker"] = "open" THEN wake_pipe + 1 ELSE wake_pipe

\* the number of functions deferred so far
ndeferred == Cardinality({i \in DOMAIN events : events[i].ev = "defer"})

\* the frame layer at rest
FrameIdle ==
    /\ tosend = <<>> /\ encoded = <<>> /\ struct_error = FALSE
    /\ _output_buf = <<>> /\ wire = <<>> /\ _input_buf = <<>>
    /\ routed = <<>> /\ eof = FALSE

\* A running process: Broker.__init__ started the Waker, a child is
\* connected on s1 (in a slave, the parent stream as well), and the broker
\* thread has run the deferred _readers.add calls and read their wake bytes.
BrokerInit ==
    /\ FrameIdle
    /\ \E cfg \in {MasterConfig, ChildConfig} :
         LET running == {"waker", "s1"}
                        \cup (IF cfg.parent_id # None THEN {"parent"} ELSE {})
         IN  /\ context_id = cfg.context_id
             /\ parent_id = cfg.parent_id
             /\ _stream_by_id = With(cfg._stream_by_id, StreamPeer("s1"), "s1")
             /\ _context_by_id = With(cfg._context_by_id, StreamPeer("s1"),
                                      Registered(StreamPeer("s1")))
             /\ _handle_map = cfg._handle_map
             /\ _last_handle = 1000
             /\ _signals = [c \in ContextObjs |-> <<>>]
             /\ side_fd = [s \in BrokerStreams |->
                             IF s \in running THEN "open" ELSE "new"]
             /\ out_msgs = [s \in BrokerStreams |-> <<>>]
             /\ _readers = running
             /\ _writers = {}
             /\ _alive = TRUE
             /\ Broker_queue = <<>>
             /\ receivers = EmptyDict
             /\ Receiver_queue = cfg.Receiver_queue
             /\ peer_got = [s \in Streams |-> {}]
             /\ nrecv = 0
    /\ LayersIdle

\* a step of SpecBroker leaves these alone
BrokerFrame == UNCHANGED <<frameVars, receivers, peer_got, nrecv, notBroker>>

\* Broker.defer(func) called by a thread that is not the broker's, while the
\* broker thread has not exited: queue.put, then Waker.wake.
defer_call(kind) ==
    /\ pc # "done"
    /\ ndeferred < MaxDefer
    /\ LET k == ndeferred + 1
       IN  /\ InstallRouter(defer(St, DeferredFn(kind, k)))
           /\ events' = Append(events, Ev("defer", kind, k))
    /\ wake_pipe' = wake
    /\ UNCHANGED <<pc, deadline_passed>>
    /\ BrokerFrame

\* Broker.shutdown() called by a thread that is not the broker's
shutdown_call ==
    /\ pc # "done"
    /\ _alive
    /\ InstallRouter([St EXCEPT !._alive = FALSE])
    /\ events' = Append(events, Ev("shutdown()", NoStream, 0))
    /\ wake_pipe' = wake
    /\ UNCHANGED <<pc, deadline_passed>>
    /\ BrokerFrame

\* while self._alive: the head of _loop_once, up to select.select
loop_once ==
    /\ pc = "main"
    /\ _alive
    /\ LET st == RunQueue(St)
       IN  /\ InstallRouter(st)
           /\ events' = events \o RunEvents(Broker_queue) \o ShutdownEvents(st)
    /\ pc' = "select"
    /\ UNCHANGED <<deadline_passed, wake_pipe>>
    /\ BrokerFrame

\* the pc to which _loop_once returns
Caller(at) == IF at = "select" THEN "main" ELSE "drain"

\* select.select reports the Waker readable: Waker.on_receive reads the
\* bytes in the pipe
select_waker ==
    /\ pc \in {"select", "drain_select"}
    /\ "waker" \in _readers
    /\ wake_pipe > 0
    /\ wake_pipe' = 0
    /\ pc' = Caller(pc)
    /\ UNCHANGED <<routerVars, events, deadline_passed>>
    /\ UNCHANGED <<frameVars, notBroker>>

\* select.select reports s readable and the read returns no bytes: the peer
\* closed its end
select_eof(s) ==
    /\ pc \in {"select", "drain_select"}
    /\ s \in _readers \ {"waker"}
    /\ InstallRouter(Stream_on_disconnect(St, s))
    /\ events' = events \o ShutdownEvents(Stream_on_disconnect(St, s))
    /\ pc' = Caller(pc)
    /\ UNCHANGED <<deadline_passed, wake_pipe>>
    /\ BrokerFrame

\* select.select reports s writable: Stream.on_transmit writes the head frame
select_transmit(s) ==
    /\ pc \in {"select", "drain_select"}
    /\ s \in _writers
    /\ out_msgs[s] # <<>>
    /\ LET st1 == [St EXCEPT !.out_msgs[s] = Tail(@)]
       IN  InstallRouter(IF st1.out_msgs[s] = <<>>
                         THEN [st1 EXCEPT !._writers = @ \ {s}] ELSE st1)
    /\ events' = Append(events, Ev("sent", s, Head(out_msgs[s]).handle))
    /\ pc' = Caller(pc)
    /\ UNCHANGED <<deadline_passed, wake_pipe>>
    /\ BrokerFrame

\* the listener of the broker's 'shutdown' signal in a slave,
\* ExternalContext._on_broker_shutdown: channel.close()
_on_broker_shutdown(st) ==
    IF CALL_FUNCTION \in DOMAIN st.Receiver_queue
    THEN [st EXCEPT !.Receiver_queue[CALL_FUNCTION] = Append(@, _DEAD)]
    ELSE st

\* what _broker_main records between the main loop and the drain loop
AfterLoopEvents(queue, order) ==
    RunEvents(queue)
    \o <<Ev("fire shutdown", NoStream, 0)>>
    \o [i \in DOMAIN order |-> Ev("on_shutdown", order[i][1], 0)]

\* after_loop without its _run_defer
Bad_after_loop ==
    /\ pc = "main"
    /\ ~_alive
    /\ LET st1 == _on_broker_shutdown(St)
       IN  \E order \in Orders(Sides(st1)) :
             /\ InstallRouter(OnShutdownEach(st1, order))
             /\ events' = events \o AfterLoopEvents(<<>>, Listed(Sides(st1)))
    /\ pc' = "drain"
    /\ UNCHANGED <<deadline_passed, wake_pipe>>
    /\ BrokerFrame

\* _broker_main once self._alive is false: _run_defer, fire 'shutdown',
\* on_shutdown of every Side's stream, and the deadline is set
after_loop ==
    /\ pc = "main"
    /\ ~_alive
    /\ LET st1 == _on_broker_shutdown(RunQueue(St))
       IN  \E order \in Orders(Sides(st1)) :
             /\ InstallRouter(OnShutdownEach(st1, order))
             /\ events' = events \o AfterLoopEvents(Broker_queue, Listed(Sides(st1)))
    /\ pc' = "drain"
    /\ UNCHANGED <<deadline_passed, wake_pipe>>
    /\ BrokerFrame

\* time passes the shutdown deadline
tick ==
    /\ pc \in {"drain", "drain_select"}
    /\ ~deadline_passed
    /\ deadline_passed' = TRUE
    /\ UNCHANGED <<routerVars, pc, events, wake_pipe>>
    /\ UNCHANGED <<frameVars, notBroker>>

\* while self.keep_alive() and time.time() < deadline: the head of
\* _loop_once(timeout)
drain_loop_once ==
    /\ pc = "drain"
    /\ keep_alive(St) # 0
    /\ ~deadline_passed
    /\ LET st == RunQueue(St)
       IN  /\ InstallRouter(st)
           /\ events' = events \o RunEvents(Broker_queue)
    /\ pc' = "drain_select"
    /\ UNCHANGED <<deadline_passed, wake_pipe>>
    /\ BrokerFrame

\* select.select returns nothing when its timeout, the rest of the time to
\* the deadline, runs out
select_timeout ==
    /\ pc = "drain_select"
    /\ deadline_passed
    /\ pc' = "drain"
    /\ UNCHANGED <<routerVars, events, deadline_passed, wake_pipe>>
    /\ UNCHANGED <<frameVars, notBroker>>

\* what the force-disconnect loop records
ForceEvents(order) ==
    [i \in DOMAIN order |-> Ev("on_disconnect", order[i][1], 0)]

\* the drain loop ends: on_disconnect of every remaining Side's stream
force_disconnect ==
    /\ pc = "drain"
    /\ keep_alive(St) = 0 \/ deadline_passed
    /\ \E order \in Orders(Sides(St)) :
         /\ InstallRouter(OnDisconnectEach(St, order))
         /\ events' = events \o <<Ev("drain ended", NoStream, keep_alive(St))>>
                             \o ForceEvents(Listed(Sides(St)))
    /\ pc' = "exit"
    /\ UNCHANGED <<deadline_passed, wake_pipe>>
    /\ BrokerFrame

\* fire(self, 'exit'), and the broker thread ends
fire_exit ==
    /\ pc = "exit"
    /\ pc' = "done"
    /\ events' = Append(events, Ev("fire exit", NoStream, 0))
    /\ UNCHANGED <<routerVars, deadline_passed, wake_pipe>>
    /\ UNCHANGED <<frameVars, notBroker>>

BrokerNext ==
    \/ \E kind \in DeferredKinds : defer_call(kind)
    \/ shutdown_call
    \/ loop_once
    \/ select_waker
    \/ \E s \in Streams : select_eof(s)
    \/ \E s \in Streams : select_transmit(s)
    \/ after_loop
    \/ tick
    \/ drain_loop_once
    \/ select_timeout
    \/ force_disconnect
    \/ fire_exit

SpecBroker == BrokerInit /\ [][BrokerNext]_vars

\* a step of the broker thread
BrokerStep ==
    \/ loop_once
    \/ select_waker
    \/ \E s \in Streams : select_transmit(s)
    \/ after_loop
    \/ drain_loop_once
    \/ select_timeout
    \/ force_disconnect
    \/ fire_exit

\* The broker thread is scheduled, and time passes; what caller threads and
\* peers do is up to them.
BrokerFairness == WF_vars(BrokerStep) /\ WF_vars(tick)

SpecBrokerFair == SpecBroker /\ BrokerFairness

-----------------------------------------------------------------------------
(* SpecDispatch: a slave's main thread in ExternalContext._dispatch_calls, *)
(* serving the CALL_FUNCTION messages its broker thread receives.          *)

\* At most this many CALL_FUNCTION messages arrive.
MaxCalls == 2

\* What a CALL_FUNCTION message can carry: the 5-tuple of a function that
\* returns, of one that raises (or cannot be imported or resolved), the
\* CallError that Message.pickled puts in place of arguments that cannot be
\* pickled, or some other object.
CallKinds == {"call", "call raises", "CallError", "not a call"}

CallFrames ==
    { [dst_id |-> 1, src_id |-> src, handle |-> CALL_FUNCTION,
       reply_to |-> r, data |-> Data(kind)] :
        src \in {0, 2}, r \in {1000, 1001}, kind \in CallKinds }

DispatchInit ==
    /\ FrameIdle
    /\ Started(ChildConfig)
    /\ LayersIdle

\* a step of the dispatch loop leaves these alone
DispatchFrame == UNCHANGED <<frameVars, receivers, peer_got, notDispatch>>

\* the broker thread reads a CALL_FUNCTION frame from the parent stream
deliver_call(msg) ==
    /\ _alive
    /\ "parent" \in _readers
    /\ nrecv < MaxCalls
    /\ msg \in CallFrames
    /\ Install(Receive("parent", msg))
    /\ nrecv' = nrecv + 1
    /\ UNCHANGED <<receivers, peer_got>>

\* a SHUTDOWN frame for this process, with src_id src
ShutdownFrame(src) ==
    [dst_id |-> context_id, src_id |-> src, handle |-> SHUTDOWN,
     reply_to |-> None, data |-> Data("")]

\* the broker thread reads a SHUTDOWN frame from the parent stream
deliver_shutdown(src) ==
    /\ _alive
    /\ "parent" \in _readers
    /\ Install(Receive("parent", ShutdownFrame(src)))
    /\ UNCHANGED <<receivers, peer_got, nrecv>>

\* the broker thread, shut down, fires 'shutdown': _on_broker_shutdown closes
\* the channel
fire_shutdown ==
    /\ ~_alive
    /\ \A i \in DOMAIN Receiver_queue[CALL_FUNCTION] :
         Receiver_queue[CALL_FUNCTION][i] # _DEAD
    /\ Install(_on_broker_shutdown(St))
    /\ UNCHANGED <<receivers, peer_got, nrecv>>

\* the reply of _dispatch_calls to item number i of the channel
DispatchReply(i, msg, kind) == [item |-> i, msg |-> Reply(msg, kind)]

\* One turn of `for msg, data in self.channel` and the loop body, for the
\* item the channel's get() returns: ChannelError ends the loop; a CallError
\* raised by get(), or data that does not unpack into five fields, leaves
\* _dispatch_calls by an exception; otherwise the function is called and its
\* value, or the CallError of what it raised, is routed.  When the loop ends
\* either way, ExternalContext.main shuts the broker down.
dispatch_item(st, i, item) ==
    LET outcome == GetOutcome(TRUE, item)
    IN  IF outcome = "ChannelError"
        THEN [st |-> [st EXCEPT !._alive = FALSE], pc |-> "stopped", replies |-> <<>>]
        ELSE IF outcome = "CallError" \/ item.data.kind = "not a call"
        THEN [st |-> [st EXCEPT !._alive = FALSE], pc |-> "crashed", replies |-> <<>>]
        ELSE LET r == DispatchReply(i, item,
                        IF item.data.kind = "call" THEN "value" ELSE "CallError")
             IN  [st |-> defer(st, Deferred("_async_route", NoStream, r.msg)),
                  pc |-> "running", replies |-> <<r>>]

\* the main thread in _dispatch_calls
_dispatch_calls ==
    /\ dispatch_pc = "running"
    /\ taken < Len(Receiver_queue[CALL_FUNCTION])
    /\ LET res == dispatch_item(St, taken + 1, Receiver_queue[CALL_FUNCTION][taken + 1])
       IN  /\ InstallRouter(res.st)
           /\ dispatch_pc' = res.pc
           /\ replies' = replies \o res.replies
    /\ taken' = taken + 1
    /\ UNCHANGED nrecv
    /\ DispatchFrame

DispatchNext ==
    \/ \E msg \in CallFrames : deliver_call(msg)
    \/ \E src \in PeerIds : deliver_shutdown(src)
    \/ fire_shutdown
    \/ _run_defer
    \/ \E s \in Streams : _call_on_transmit(s)
    \/ _dispatch_calls

SpecDispatch == DispatchInit /\ [][DispatchNext]_vars

-----------------------------------------------------------------------------
(* SpecIds: the master's IdAllocator under concurrent allocate() calls, and *)
(* the processes brought up with the ids it hands out.                      *)

\* At most this many ids are asked for.
MaxIds == 3

\* the master process as get_preamble sees it: mitogen.context_id and
\* mitogen.parent_ids
Master == [context_id |-> 0, parent_ids |-> <<>>]

\* Stream.get_preamble run in process proc for a stream with remote_id: the
\* parent_ids and context_id arguments of the child's ExternalContext.main
get_preamble(proc, remote_id) ==
    [context_id |-> remote_id, parent_ids |-> <<proc.context_id>> \o proc.parent_ids]

IdsInit ==
    /\ FrameIdle
    /\ Started(MasterConfig)
    /\ LayersIdle

IdsFrame == UNCHANGED <<frameVars, routerVars, notIds>>

\* the calls of allocate() begun so far
nallocs ==
    Len(handed)
    + Cardinality({t \in Threads : alloc[t].pc \in {"acquire", "locked", "read", "bumped"}})

\* A thread begins to bring up a child of process parent: a caller thread
\* in connect (parent the master) or proxy_connect (parent the via context),
\* or the broker thread in on_allocate_id for the ALLOCATE_ID message of a
\* slave that connects a child of its own.
allocate_begin(t, parent) ==
    /\ alloc[t].pc = "idle"
    /\ nallocs < MaxIds
    /\ parent \in {q.context_id : q \in peers} \cup (IF t = "broker" THEN {} ELSE {0})
    /\ alloc' = [alloc EXCEPT ![t] = [pc |-> "acquire", id_ |-> 0, parent |-> parent]]
    /\ UNCHANGED <<next_id, lock, handed, peers>>
    /\ IdsFrame

\* self.lock.acquire() that does not wait
Bad_lock_acquire(t) ==
    /\ alloc[t].pc = "acquire"
    /\ lock' = t
    /\ alloc' = [alloc EXCEPT ![t].pc = "locked"]
    /\ UNCHANGED <<next_id, handed, peers>>
    /\ IdsFrame

\* self.lock.acquire()
lock_acquire(t) ==
    /\ alloc[t].pc = "acquire"
    /\ lock = "free"
    /\ lock' = t
    /\ alloc' = [alloc EXCEPT ![t].pc = "locked"]
    /\ UNCHANGED <<next_id, handed, peers>>
    /\ IdsFrame

\* id_ = self.next_id
read_next_id(t) ==
    /\ alloc[t].pc = "locked"
    /\ alloc' = [alloc EXCEPT ![t].pc = "read", ![t].id_ = next_id]
    /\ UNCHANGED <<next_id, lock, handed, peers>>
    /\ IdsFrame

\* self.next_id += 1
bump_next_id(t) ==
    /\ alloc[t].pc = "read"
    /\ next_id' = next_id + 1
    /\ alloc' = [alloc EXCEPT ![t].pc = "bumped"]
    /\ UNCHANGED <<lock, handed, peers>>
    /\ IdsFrame

\* return id_, through finally: self.lock.release()
lock_release(t) ==
    /\ alloc[t].pc = "bumped"
    /\ lock' = "free"
    /\ handed' = Append(handed, alloc[t].id_)
    /\ alloc' = [alloc EXCEPT ![t].pc = "released"]
    /\ UNCHANGED <<next_id, peers>>
    /\ IdsFrame

\* the process the child is connected from builds the Stream with
\* remote_id = id_ and starts the child with its get_preamble
bring_up(t) ==
    /\ alloc[t].pc = "released"
    /\ LET proc == CHOOSE q \in peers \cup {Master} : q.context_id = alloc[t].parent
       IN  peers' = peers \cup {get_preamble(proc, alloc[t].id_)}
    /\ alloc' = [alloc EXCEPT ![t].pc = "idle"]
    /\ UNCHANGED <<next_id, lock, handed>>
    /\ IdsFrame

IdsNext ==
    \E t \in Threads :
        \/ \E parent \in 0..MaxIds : allocate_begin(t, parent)
        \/ lock_acquire(t)
        \/ read_next_id(t)
        \/ bump_next_id(t)
        \/ lock_release(t)
        \/ bring_up(t)

SpecIds == IdsInit /\ [][IdsNext]_vars

-----------------------------------------------------------------------------
(* SpecSelect: application threads adding to, removing from, closing and   *)
(* reading Selects, while messages arrive on the Receivers.                *)

\* A Select's _receivers list grows to this length at most.
MaxMembers == 2
\* A Receiver's queue holds this many messages at most.
MaxMsgs == 2
\* A Select's queue holds this many notifications at most.
MaxNotes == 2

\* the depth at which Python gives up a recursion; no chain of distinct
\* Selects is as long
RecursionLimit == Cardinality(Selects) + 1

\* the Select layer as a value, with the exception of the call in progress
SelSt ==
    [ _receivers |-> _receivers, notify |-> notify, Select_queue |-> Select_queue,
      recv_msgs |-> recv_msgs, exc |-> "" ]

RECURSIVE Select_put(_, _, _, _)
\* Select._put(value): queue it, and notify the Select that owns this one
Select_put(st, sel, value, depth) ==
    LET st1 == [st EXCEPT !.Select_queue[sel] = Append(@, value)]
    IN  IF st.notify[sel] = NoOwner THEN st1
        ELSE IF depth >= RecursionLimit THEN [st1 EXCEPT !.exc = "RuntimeError"]
        ELSE Select_put(st1, st.notify[sel], sel, depth + 1)

\* Receiver._on_receive on the broker thread: queue the message, then notify
Receiver_notify(st, r) ==
    LET st1 == [st EXCEPT !.recv_msgs[r] = @ + 1]
    IN  IF st.notify[r] = NoOwner THEN st1
        ELSE Select_put(st1, st.notify[r], r, 1)

\* recv.empty() of a Receiver or a Select
Empty(st, o) ==
    IF o \in Selects THEN st.Select_queue[o] = <<>> ELSE st.recv_msgs[o] = 0

\* a _check_no_loop that finds nothing
Bad_check_no_loop(st, self, recv, depth) == FALSE

RECURSIVE _check_no_loop(_, _, _, _)
\* Select._check_no_loop(recv) of Select self: TRUE when it raises
_check_no_loop(st, self, recv, depth) ==
    \/ recv = self
    \/ \E i \in DOMAIN st._receivers[self] :
         LET recv_ == st._receivers[self][i]
         IN  \/ recv_ = recv
             \/ /\ recv_ \in Selects
                /\ depth >= RecursionLimit \/ _check_no_loop(st, recv_, recv, depth + 1)

\* Select.add up to recv.notify = self._put
Select_add_install(st, sel, recv) ==
    IF recv \in Selects /\ _check_no_loop(st, recv, sel, 1)
    THEN [st EXCEPT !.exc = "SelectError"]
    ELSE LET st1 == [st EXCEPT !._receivers[sel] = Append(@, recv)]
         IN  IF st.notify[recv] # NoOwner THEN [st1 EXCEPT !.exc = "SelectError"]
             ELSE [st1 EXCEPT !.notify[recv] = sel]

\* the rest of Select.add: poll once after installation
Select_add_poll(st, sel, recv) ==
    IF ~Empty(st, recv) THEN Select_put(st, sel, recv, 1) ELSE st

\* Select.add
Select_add(st, sel, recv) ==
    LET st1 == Select_add_install(st, sel, recv)
    IN  IF st1.exc # "" THEN st1 ELSE Select_add_poll(st1, sel, recv)

\* list.remove: the first occurrence
RECURSIVE ListRemove(_, _)
ListRemove(list, x) ==
    IF list = <<>> THEN <<>>
    ELSE IF Head(list) = x THEN Tail(list)
    ELSE <<Head(list)>> \o ListRemove(Tail(list), x)

\* Select.remove
Select_remove(st, sel, recv) ==
    IF st.notify[recv] # sel \/ \A i \in DOMAIN st._receivers[sel] : st._receivers[sel][i] # recv
    THEN [st EXCEPT !.exc = "SelectError"]
    ELSE [st EXCEPT !._receivers[sel] = ListRemove(@, recv), !.notify[recv] = NoOwner]

RECURSIVE Select_close_loop(_, _, _)
Select_close_loop(st, sel, copy) ==
    IF copy = <<>> THEN st
    ELSE LET st1 == Select_remove(st, sel, Head(copy))
         IN  IF st1.exc # "" THEN st1 ELSE Select_close_loop(st1, sel, Tail(copy))

\* Select.close
Select_close(st, sel) == Select_close_loop(st, sel, st._receivers[sel])

\* One turn of the loop of Select.get with a notification in the queue:
\* recv.get(block=False), which a Select does not accept and which raises
\* TimeoutError, caught here, for a Receiver with nothing queued; with a
\* message, remove(recv) if oneshot, and return.
Select_get_turn(st, sel, oneshot) ==
    LET recv == Head(st.Select_queue[sel])
        st1  == [st EXCEPT !.Select_queue[sel] = Tail(@)]
    IN  IF recv \in Selects THEN [st1 EXCEPT !.exc = "TypeError"]
        ELSE IF st1.recv_msgs[recv] = 0 THEN [st1 EXCEPT !.exc = "TimeoutError"]
        ELSE LET st2 == [st1 EXCEPT !.recv_msgs[recv] = @ - 1]
             IN  IF oneshot THEN Select_remove(st2, sel, recv) ELSE st2

SelectInit ==
    /\ FrameIdle
    /\ Started(MasterConfig)
    /\ BrokerIdle /\ DispatchIdle /\ IdsIdle /\ ImportIdle /\ RelatedIdle /\ CascadeIdle /\ TransmitIdle /\ TreeIdle /\ MainIdle /\ BootIdle /\ PickleIdle
    /\ SelectsIdle

\* the queues stay within the bounds
WithinBounds(st) ==
    /\ \A sel \in Selects : Len(st.Select_queue[sel]) <= MaxNotes
    /\ \A r \in Receivers : st.recv_msgs[r] <= MaxMsgs

\* a step of the Select layer: on an exception out of the call, what it did
\* before raising stays done
InstallSelect(st) ==
    /\ _receivers' = st._receivers
    /\ notify' = st.notify
    /\ Select_queue' = st.Select_queue
    /\ recv_msgs' = st.recv_msgs
    /\ UNCHANGED <<_oneshot, frameVars, routerVars, notSelect>>

\* a thread calls sel.add(recv) and gets as far as recv.notify = self._put
add_install(sel, recv) ==
    /\ adding[sel] = NoOwner
    /\ Len(_receivers[sel]) < MaxMembers
    /\ LET st == Select_add_install(SelSt, sel, recv)
       IN  /\ InstallSelect(st)
           /\ adding' = [adding EXCEPT ![sel] = IF st.exc = "" THEN recv ELSE NoOwner]
    /\ UNCHANGED getting

\* the thread in sel.add(recv) polls recv and returns
add_poll(sel) ==
    /\ adding[sel] # NoOwner
    /\ LET st == Select_add_poll(SelSt, sel, adding[sel])
       IN  /\ WithinBounds(st)
           /\ InstallSelect(st)
    /\ adding' = [adding EXCEPT ![sel] = NoOwner]
    /\ UNCHANGED getting

\* a thread calls sel.remove(recv)
remove(sel, recv) ==
    /\ InstallSelect(Select_remove(SelSt, sel, recv))
    /\ UNCHANGED <<adding, getting>>

\* a thread calls sel.close()
close(sel) ==
    /\ InstallSelect(Select_close(SelSt, sel))
    /\ UNCHANGED <<adding, getting>>

\* a message for Receiver r arrives: Receiver._on_receive
message_arrives(r) ==
    /\ LET st == Receiver_notify(SelSt, r)
       IN  /\ WithinBounds(st)
           /\ InstallSelect(st)
    /\ UNCHANGED <<adding, getting>>

\* a thread calls sel.get(): SelectError if the Select has no receivers
get_begin(sel) ==
    /\ ~getting[sel]
    /\ InstallSelect(IF _receivers[sel] = <<>>
                     THEN [SelSt EXCEPT !.exc = "SelectError"] ELSE SelSt)
    /\ getting' = [getting EXCEPT ![sel] = _receivers[sel] # <<>>]
    /\ UNCHANGED adding

\* the thread in sel.get() takes a notification from the queue
get_turn(sel) ==
    /\ getting[sel]
    /\ Select_queue[sel] # <<>>
    /\ LET st == Select_get_turn(SelSt, sel, _oneshot[sel])
       IN  IF st.exc = "TimeoutError"
           THEN /\ InstallSelect(st)
                /\ UNCHANGED getting
           ELSE /\ InstallSelect(st)
                /\ getting' = [getting EXCEPT ![sel] = FALSE]
    /\ UNCHANGED adding

\* the Selects and the objects that the threads of SpecSelect use
Used == {"sel_a", "sel_b"}
Added == {"sel_b", "recv"}

SelectNext ==
    \/ \E sel \in Used, recv \in Added : add_install(sel, recv)
    \/ \E sel \in Used : add_poll(sel)
    \/ \E sel \in Used, recv \in Added : remove(sel, recv)
    \/ \E sel \in Used : close(sel)
    \/ \E r \in Receivers : message_arrives(r)
    \/ \E sel \in Used : get_begin(sel)
    \/ \E sel \in Used : get_turn(sel)

SpecSelect == SelectInit /\ [][SelectNext]_vars

\* SpecSelectGraph: threads nesting the Selects in each other; no message
\* arrives and nobody reads.
GraphNext ==
    \/ \E sel \in Selects, recv \in Selects : add_install(sel, recv)
    \/ \E sel \in Selects : add_poll(sel)
    \/ \E sel \in Selects, recv \in Selects : remove(sel, recv)
    \/ \E sel \in Selects : close(sel)

SpecSelectGraph == SelectInit /\ [][GraphNext]_vars

-----------------------------------------------------------------------------
(* SpecImport: a slave (context 1) whose children 2 and 3 ask it for       *)
(* modules and whose own threads import them.  The parent stream stays     *)
(* connected; the parent answers the requests in the order it reads them.  *)

\* Child requests handled, and load_module calls made, are at most these many.
MaxRequests == 3
MaxLoads == 2

ChildIds == {2, 3}

\* What the master's ModuleResponder answers for a fullname.
MasterAnswer(fullname) == IF fullname = "found" THEN "module" ELSE "null"

\* Router.add_handler(handler, persist=False) in ModuleForwarder, and the
\* Receiver of send_await: the next handle of Router._last_handle.
NextHandle == 1000 + Len(to_parent)

\* the child requests the forwarder has handled
nrequests == Len(to_child) + Cardinality(fwd_handlers)

\* the faulty test `if cached:` on the importer's path: a None entry counts
\* as a miss
Bad_Importer_cache_hit(cache, fullname) == cache[fullname] = "module"

\* Importer.load_module: `try: ret = self._cache[fullname]` finds any entry,
\* None included; KeyError only for a name never stored.
Importer_cache_hit(cache, fullname) == cache[fullname] # "absent"

\* ModuleForwarder._on_get_module: `cached = self.importer._cache.get(fullname)`
\* followed by `if cached:`, which a None entry fails as an absent one does.
Forwarder_cache_hit(cache, fullname) == cache[fullname] = "module"

ImportInit ==
    /\ FrameIdle
    /\ Started(ChildConfig)
    /\ LayersIdle

ImportFrame == UNCHANGED <<frameVars, routerVars, notImport>>

\* ModuleForwarder._on_get_module(msg) for a request of child src with reply
\* handle reply_to: a cached tuple is routed back at once; otherwise a
\* one-shot handler is registered and a GET_MODULE for the same name is sent
\* to the parent.
Forwarder_on_get_module(src, reply_to, fullname) ==
    /\ nrequests < MaxRequests
    /\ reply_to = nrequests + 1
    /\ IF Forwarder_cache_hit(_cache, fullname)
       THEN /\ to_child' = Append(to_child,
                  [dst_id |-> src, handle |-> reply_to, fullname |-> fullname,
                   data |-> _cache[fullname], cached |-> TRUE])
            /\ UNCHANGED <<fwd_handlers, to_parent>>
       ELSE /\ fwd_handlers' = fwd_handlers \cup
                  {[handle |-> NextHandle, src_id |-> src, reply_to |-> reply_to,
                    fullname |-> fullname]}
            /\ to_parent' = Append(to_parent,
                  [fullname |-> fullname, reply_to |-> NextHandle,
                   by |-> "ModuleForwarder"])
            /\ UNCHANGED to_child
    /\ UNCHANGED <<_cache, nanswered, load_pc, load_name, Importer_reply, loads>>
    /\ ImportFrame

\* The parent's reply to the oldest unanswered request arrives and
\* Router._invoke calls the handler of its handle: the forwarder's one-shot
\* handler runs _on_got_source (store msg.unpickle() in the importer's
\* cache, route the payload to the original requester); the importer's
\* Receiver queues the reply for the thread in send_await.
parent_reply ==
    /\ nanswered < Len(to_parent)
    /\ LET req  == to_parent[nanswered + 1]
           data == MasterAnswer(req.fullname)
       IN  IF req.by = "ModuleForwarder"
           THEN LET h == CHOOSE x \in fwd_handlers : x.handle = req.reply_to
                IN  /\ fwd_handlers' = fwd_handlers \ {h}
                    /\ _cache' = [_cache EXCEPT ![h.fullname] = data]
                    /\ to_child' = Append(to_child,
                          [dst_id |-> h.src_id, handle |-> h.reply_to,
                           fullname |-> h.fullname, data |-> data,
                           cached |-> FALSE])
                    /\ UNCHANGED Importer_reply
           ELSE /\ Importer_reply' = data
                /\ UNCHANGED <<fwd_handlers, _cache, to_child>>
    /\ nanswered' = nanswered + 1
    /\ UNCHANGED <<to_parent, load_pc, load_name, loads>>
    /\ ImportFrame

\* what load_module does with the entry it found or fetched
LoadOutcome(ret) == IF ret = "null" THEN "ImportError" ELSE "module"

\* Importer.load_module(fullname) up to its send_await: an entry of the cache
\* decides the call at once; with none, the request goes to the parent and
\* the thread waits for the reply.  The interpreter's import lock admits one
\* importing thread at a time.
load_module(fullname) ==
    /\ load_pc = "idle"
    /\ Len(loads) < MaxLoads
    /\ IF Importer_cache_hit(_cache, fullname)
       THEN /\ loads' = Append(loads,
                  [fullname |-> fullname, sent |-> FALSE,
                   outcome |-> LoadOutcome(_cache[fullname])])
            /\ UNCHANGED <<to_parent, load_pc, load_name>>
       ELSE /\ to_parent' = Append(to_parent,
                  [fullname |-> fullname, reply_to |-> NextHandle,
                   by |-> "Importer"])
            /\ load_pc' = "waiting"
            /\ load_name' = fullname
            /\ UNCHANGED loads
    /\ UNCHANGED <<_cache, fwd_handlers, nanswered, to_child, Importer_reply>>
    /\ ImportFrame

\* send_await returns in load_module: the reply is stored in the cache,
\* None as well, and the module is built or ImportError raised.
load_module_return ==
    /\ load_pc = "waiting"
    /\ Importer_reply # "none"
    /\ _cache' = [_cache EXCEPT ![load_name] = Importer_reply]
    /\ loads' = Append(loads,
          [fullname |-> load_name, sent |-> TRUE,
           outcome |-> LoadOutcome(Importer_reply)])
    /\ load_pc' = "idle"
    /\ load_name' = "None"
    /\ Importer_reply' = "none"
    /\ UNCHANGED <<fwd_handlers, to_parent, nanswered, to_child>>
    /\ ImportFrame

ImportNext ==
    \/ \E src \in ChildIds, reply_to \in 1..MaxRequests, fullname \in Fullnames :
          Forwarder_on_get_module(src, reply_to, fullname)
    \/ parent_reply
    \/ \E fullname \in Fullnames : load_module(fullname)
    \/ load_module_return

SpecImport == ImportInit /\ [][ImportNext]_vars

-----------------------------------------------------------------------------
(* SpecPickle: one Message.  Either this process builds it with            *)
(* Message.pickled(obj), or a peer writes its data; then the receiver      *)
(* calls Message.unpickle.                                                 *)

\* the limits the _unpickle functions assert
MaxCallErrorLen == 10000
MaxNameLen == 100

\* an element of an argument tuple: an int, a str or None
IntArg(n) == [kind |-> "int", int |-> n, str |-> NoStr]
StrArg(s) == [kind |-> IF s = NoStr THEN "None" ELSE "str", int |-> 0, str |-> s]

\* Context names: None (the default of Context.__init__) and strings below,
\* just below and at the limit; CallError texts likewise
Names == {NoStr} \cup { Str("name", n) : n \in {1, MaxNameLen - 1, MaxNameLen} }
Texts == { Str("text", n) : n \in {0, MaxCallErrorLen - 1, MaxCallErrorLen} }

\* the objects handed to Message.pickled: Contexts (the master's id 0
\* included), CallErrors, _DEAD, None, and a function, which does not pickle
PickleObjects ==
    { Obj("Context", id, name, NoStr) : id \in {0, 1, 2}, name \in Names }
    \cup { Obj("CallError", None, NoStr, s) : s \in Texts }
    \cup { Obj("Dead", None, NoStr, NoStr), Obj("NoneType", None, NoStr, NoStr),
           Obj("function", None, NoStr, NoStr) }

\* Context.__reduce__, CallError.__reduce__ and Dead.__reduce__
__reduce__(o) ==
    CASE o.cls = "Context" ->
           Pickle("REDUCE", "mitogen.core", "_unpickle_context",
                  <<IntArg(o.context_id), StrArg(o.name)>>)
      [] o.cls = "CallError" ->
           Pickle("REDUCE", "mitogen.core", "_unpickle_call_error", <<StrArg(o.s)>>)
      [] o.cls = "Dead" ->
           Pickle("REDUCE", "mitogen.core", "_unpickle_dead", <<>>)

\* CallError(e) for the PicklingError cPickle raised on a function
PicklingCallError == Obj("CallError", None, NoStr, Str("PicklingError", 60))

\* cPickle.dumps(obj, protocol=2) as Message.pickled calls it, PicklingError
\* replaced by the pickle of a CallError
dumps(o) ==
    IF o.cls = "NoneType" THEN Pickle("NONE", "", "", <<>>)
    ELSE IF o.cls = "function" THEN __reduce__(PicklingCallError)
    ELSE __reduce__(o)

\* the pickles a peer may write: any global of three modules with a few
\* argument tuples
ForgedPickles ==
    { Pickle("REDUCE", module, func, args) :
        module \in {"mitogen.core", "mitogen.master", "os"},
        func \in {"_unpickle_call_error", "_unpickle_dead", "_unpickle_context",
                  "Context", "system"},
        args \in { <<>>, <<StrArg(Str("text", 5))>>,
                   <<IntArg(1), StrArg(Str("name", 1))>>,
                   <<IntArg(0), StrArg(NoStr)>> } }

\* a resolver that trusts every name of mitogen.core
Bad_find_global(module, func) ==
    IF module = "mitogen.core" THEN func ELSE "StreamError"

\* Message._find_global: the callable for the three whitelisted names of
\* this module, StreamError for anything else
_find_global(module, func) ==
    IF module = "mitogen.core"
       /\ func \in {"_unpickle_call_error", "_unpickle_dead", "_unpickle_context"}
    THEN func
    ELSE "StreamError"

Raised(e, called) == [exc |-> e, value |-> NoObj, called |-> called]
Returned(o, called) == [exc |-> "", value |-> o, called |-> called]

\* _unpickle_call_error(s)
_unpickle_call_error(args, called) ==
    IF Len(args) # 1 THEN Raised("TypeError", called)
    ELSE IF ~(args[1].kind = "str" /\ args[1].str.len < MaxCallErrorLen)
    THEN Raised("AssertionError", called)
    ELSE Returned(Obj("CallError", None, NoStr, args[1].str), called)

\* _unpickle_dead()
_unpickle_dead(args, called) ==
    IF Len(args) # 0 THEN Raised("TypeError", called)
    ELSE Returned(Obj("Dead", None, NoStr, NoStr), called)

\* Message._unpickle_context(context_id, name), then the module's
\* _unpickle_context(router, context_id, name)
_unpickle_context(args, router, called) ==
    IF Len(args) # 2 THEN Raised("TypeError", called)
    ELSE IF ~router THEN Raised("Exception", called)
    ELSE IF ~(args[1].kind = "int" /\ args[1].int > 0)
    THEN Raised("AssertionError", called)
    ELSE IF ~(args[2].kind = "str" /\ args[2].str.len < MaxNameLen)
    THEN Raised("AssertionError", called)
    ELSE Returned(Obj("Context", args[1].int, args[2].str, NoStr), called)

\* the REDUCE opcode: the callable find_global returned is called with the
\* argument tuple
Reduce(fn, args, router) ==
    CASE fn = "_unpickle_call_error" -> _unpickle_call_error(args, {fn})
      [] fn = "_unpickle_dead" -> _unpickle_dead(args, {fn})
      [] fn = "_unpickle_context" -> _unpickle_context(args, router, {fn})
      [] OTHER -> Returned(Obj(fn, None, NoStr, NoStr), {fn})

\* Message.unpickle: cPickle.Unpickler with find_global = _find_global;
\* TypeError and ValueError become StreamError, other exceptions pass
Message_unpickle(p, router) ==
    IF p.op = "NONE" THEN Returned(Obj("NoneType", None, NoStr, NoStr), {})
    ELSE LET fn == _find_global(p.module, p.func)
         IN  IF fn = "StreamError" THEN Raised("StreamError", {})
             ELSE LET r == Reduce(fn, p.args, router)
                  IN  IF r.exc \in {"TypeError", "ValueError"}
                      THEN [r EXCEPT !.exc = "StreamError"]
                      ELSE r

PickleInit ==
    /\ FrameIdle
    /\ Started(MasterConfig)
    /\ LayersIdle

PickleFrame == UNCHANGED <<frameVars, routerVars, notPickle>>

\* Message.pickled(o)
pickled(o) ==
    /\ pickle_pc = "idle"
    /\ pickle_pc' = "pickled"
    /\ obj' = o
    /\ Message_data' = dumps(o)
    /\ UNCHANGED <<Message_router, unpickled>>
    /\ PickleFrame

\* a peer writes the data of the message itself
peer_writes(p) ==
    /\ pickle_pc = "idle"
    /\ pickle_pc' = "pickled"
    /\ Message_data' = p
    /\ UNCHANGED <<obj, Message_router, unpickled>>
    /\ PickleFrame

\* the receiver calls unpickle() on the message, whose router attribute the
\* receiving Stream set (router) or which was built locally without one
unpickle(router) ==
    /\ pickle_pc = "pickled"
    /\ pickle_pc' = "unpickled"
    /\ Message_router' = router
    /\ unpickled' = Message_unpickle(Message_data, router)
    /\ UNCHANGED <<obj, Message_data>>
    /\ PickleFrame

PickleNext ==
    \/ \E o \in PickleObjects : pickled(o)
    \/ \E p \in ForgedPickles : peer_writes(p)
    \/ \E router \in BOOLEAN : unpickle(router)

SpecPickle == PickleInit /\ [][PickleNext]_vars

-----------------------------------------------------------------------------
(* SpecBoot: a caller thread in master.Router._connect for one Stream of   *)
(* class master.Stream or ssh.Stream: create_child, _connect_bootstrap,    *)
(* _ec0_received, register.  The child's output arrives in chunks, each a  *)
(* sequence of tokens.                                                     *)

\* iter_read yields at most this many chunks in one connect().
MaxReads == 3

\* the length of the preamble, in units write_all may split it at
PreambleLen == 2

\* what a chunk of the child's output is made of
Tokens == {"EC0\n", "EC1\n", "Permission denied", "permission denied",
           "Password:", "password", "motd"}

\* the chunks os.read may return: one or two tokens
Chunks == { <<t>> : t \in Tokens } \cup { <<t, u>> : t \in Tokens, u \in Tokens }

\* the comparison without folding the case
Bad_lower(t) == t

\* str.lower()
lower(t) ==
    CASE t = "Permission denied" -> "permission denied"
      [] t = "Password:" -> "password:"
      [] t = "EC0\n" -> "ec0\n"
      [] t = "EC1\n" -> "ec1\n"
      [] OTHER -> t

\* `prompt in buf.lower()` for PERMDENIED_PROMPT and PASSWORD_PROMPT;
\* 'password' is found in "password:" as well
prompt_in_lower(prompt, buf) ==
    \E i \in DOMAIN buf :
        \/ lower(buf[i]) = prompt
        \/ prompt = "password" /\ lower(buf[i]) = "password:"

\* a test that lets every chunk pass
Bad_endswith(buf, s) == TRUE

\* buf.endswith(s)
endswith(buf, s) == buf # <<>> /\ buf[Len(buf)] = s

\* One turn of the loop of ssh.Stream._connect_bootstrap on the chunk buf.
ssh_bootstrap_step(buf, pw, sent) ==
    IF endswith(buf, "EC0\n") THEN "_ec0_received"
    ELSE IF prompt_in_lower("permission denied", buf)
    THEN IF pw # "None" /\ sent
         THEN "PasswordError: SSH password is incorrect"
         ELSE "PasswordError: SSH authentication is incorrect"
    ELSE IF prompt_in_lower("password", buf)
    THEN IF pw = "None"
         THEN "PasswordError: SSH password was requested, but none specified"
         ELSE "sending password"
    ELSE "next chunk"

\* One turn of discard_until(fd, 'EC0\n', deadline) in
\* master.Stream._connect_bootstrap.
local_bootstrap_step(buf) ==
    IF endswith(buf, "EC0\n") THEN "_ec0_received" ELSE "next chunk"

BootInit ==
    /\ FrameIdle
    /\ Started(MasterConfig)
    /\ BrokerIdle /\ DispatchIdle /\ IdsIdle /\ SelectsUnused /\ ImportIdle
    /\ PickleIdle /\ MainIdle /\ TreeIdle /\ TransmitIdle /\ CascadeIdle /\ RelatedIdle
    /\ \/ klass = "master.Stream" /\ password = "None"
       \/ klass = "ssh.Stream" /\ password \in {"None", "secret"}
    /\ BootNew

BootFrame == UNCHANGED <<frameVars, routerVars, notBoot, klass, password>>

\* an exception leaves connect() and Router._connect: nothing more is done
\* with the stream or the child
connect_raises(e) ==
    /\ boot_pc' = "failed"
    /\ raised' = e
    /\ UNCHANGED <<child_proc, registered>>

\* Stream.connect up to _connect_bootstrap: create_child forks the child and
\* the two Sides are made.
connect ==
    /\ boot_pc = "new"
    /\ boot_pc' = "discard_until EC0"
    /\ child_proc' = "running"
    /\ UNCHANGED <<password_sent, nreads, last_step, ec0_read, ec1_read, tty_out,
                   preamble_written, raised, registered>>
    /\ BootFrame

\* iter_read yields a chunk to the loop waiting for EC0.
read_before_EC0(buf) ==
    /\ boot_pc = "discard_until EC0"
    /\ nreads < MaxReads
    /\ nreads' = nreads + 1
    /\ LET outcome == IF klass = "ssh.Stream"
                      THEN ssh_bootstrap_step(buf, password, password_sent)
                      ELSE local_bootstrap_step(buf)
       IN  /\ last_step' = [buf |-> buf, sent_before |-> password_sent,
                            outcome |-> outcome]
           /\ ec0_read' = (buf[Len(buf)] = "EC0\n")
           /\ CASE outcome = "_ec0_received" ->
                     /\ boot_pc' = "write_all preamble"
                     /\ UNCHANGED <<password_sent, tty_out, raised, child_proc,
                                    registered>>
                [] outcome = "sending password" ->
                     /\ tty_out' = Append(tty_out, password \o "\n")
                     /\ password_sent' = TRUE
                     /\ UNCHANGED <<boot_pc, raised, child_proc, registered>>
                [] outcome = "next chunk" ->
                     UNCHANGED <<boot_pc, password_sent, tty_out, raised,
                                 child_proc, registered>>
                [] OTHER ->
                     /\ connect_raises(outcome)
                     /\ UNCHANGED <<password_sent, tty_out>>
    /\ UNCHANGED <<ec1_read, preamble_written>>
    /\ BootFrame

\* iter_read raises instead of yielding: StreamError on EOF, TimeoutError at
\* the deadline.
iter_read_raises(e) ==
    /\ boot_pc \in {"discard_until EC0", "discard_until EC1"}
    /\ connect_raises(e)
    /\ UNCHANGED <<password_sent, nreads, last_step, ec0_read, ec1_read, tty_out,
                   preamble_written>>
    /\ BootFrame

\* write_all(fd, get_preamble()): os.write accepts n more units; with the
\* whole preamble written, _ec0_received goes on to discard_until EC1.
write_all_step(n) ==
    /\ boot_pc = "write_all preamble"
    /\ n \in 1..(PreambleLen - preamble_written)
    /\ preamble_written' = preamble_written + n
    /\ tty_out' = Append(tty_out, "preamble")
    /\ boot_pc' = IF preamble_written + n = PreambleLen
                  THEN "discard_until EC1" ELSE boot_pc
    /\ UNCHANGED <<password_sent, nreads, last_step, ec0_read, ec1_read, raised,
                   child_proc, registered>>
    /\ BootFrame

\* write_all finds the stream closed: StreamError('EOF on stream during write')
write_all_raises ==
    /\ boot_pc = "write_all preamble"
    /\ connect_raises("StreamError")
    /\ UNCHANGED <<password_sent, nreads, last_step, ec0_read, ec1_read, tty_out,
                   preamble_written>>
    /\ BootFrame

\* iter_read yields a chunk to discard_until(fd, 'EC1\n', deadline); on a
\* chunk ending in EC1 connect() returns and Router._connect registers the
\* Context with the stream.
read_before_EC1(buf) ==
    /\ boot_pc = "discard_until EC1"
    /\ nreads < MaxReads
    /\ nreads' = nreads + 1
    /\ ec1_read' = (buf[Len(buf)] = "EC1\n")
    /\ IF endswith(buf, "EC1\n")
       THEN /\ boot_pc' = "registered"
            /\ registered' = TRUE
       ELSE UNCHANGED <<boot_pc, registered>>
    /\ UNCHANGED <<password_sent, last_step, ec0_read, tty_out, preamble_written,
                   raised, child_proc>>
    /\ BootFrame

BootNext ==
    \/ connect
    \/ \E buf \in Chunks : read_before_EC0(buf)
    \/ \E e \in {"StreamError", "TimeoutError"} : iter_read_raises(e)
    \/ \E n \in 1..PreambleLen : write_all_step(n)
    \/ write_all_raises
    \/ \E buf \in Chunks : read_before_EC1(buf)

SpecBoot == BootInit /\ [][BootNext]_vars

-----------------------------------------------------------------------------
(* SpecMain: the ModuleResponder finds a source text and serves it for a   *)
(* fullname.  A text is a list of lines, a line a list of tokens.          *)

\* A source text has at most this many lines.
MaxLines == 3

\* the lines a text is made of: an import, the guard as usually written,
\* the guard written tightly with double quotes and its body on the same
\* line, the guard indented, an indented call, and an if on another name
Lines ==
    { <<"import", " ", "sys">>,
      <<"if", " ", "__name__", " ", "==", " ", "'__main__'", ":">>,
      <<"if", " ", " ", "__name__", "==", "\"__main__\"", ":", " ", "main()">>,
      <<" ", "if", " ", "__name__", " ", "==", " ", "'__main__'", ":">>,
      <<" ", "main()">>,
      <<"if", " ", "__name__", " ", "==", " ", "'other'", ":">> }

RECURSIVE Texts_of(_)
\* the texts of exactly n lines
Texts_of(n) ==
    IF n = 0 THEN {<<>>}
    ELSE { Append(t, l) : t \in Texts_of(n - 1), l \in Lines }

Sources == UNION { Texts_of(n) : n \in 0..MaxLines }

RECURSIVE SkipSpace(_, _)
\* \s* from position i of the line: the first position not holding space
SkipSpace(line, i) ==
    IF i <= Len(line) /\ line[i] = " " THEN SkipSpace(line, i + 1) ELSE i

\* MAIN_RE, r'^if\s+__name__\s*==\s*.__main__.\s*:' with re.M, matched at
\* the start of the line
MAIN_RE_match(line) ==
    /\ Len(line) >= 1 /\ line[1] = "if"
    /\ LET a == SkipSpace(line, 2)
       IN  /\ a > 2 /\ a <= Len(line) /\ line[a] = "__name__"
           /\ LET b == SkipSpace(line, a + 1)
              IN  /\ b <= Len(line) /\ line[b] = "=="
                  /\ LET c == SkipSpace(line, b + 1)
                     IN  /\ c <= Len(line)
                         /\ line[c] \in {"'__main__'", "\"__main__\""}
                         /\ LET d == SkipSpace(line, c + 1)
                            IN  d <= Len(line) /\ line[d] = ":"

\* a neutralize_main that cuts nothing
Bad_neutralize_main(src) == src

\* ModuleResponder.neutralize_main: MAIN_RE.search(src) finds the first
\* line that matches, and the text before it is returned
neutralize_main(src) ==
    IF \E i \in DOMAIN src : MAIN_RE_match(src[i])
    THEN LET start == CHOOSE i \in DOMAIN src :
                        /\ MAIN_RE_match(src[i])
                        /\ \A j \in 1..(i - 1) : ~MAIN_RE_match(src[j])
         IN  SubSeq(src, 1, start - 1)
    ELSE src

MainInit ==
    /\ FrameIdle
    /\ Started(MasterConfig)
    /\ BrokerIdle /\ DispatchIdle /\ IdsIdle /\ SelectsUnused /\ ImportIdle
    /\ PickleIdle /\ BootIdle /\ TreeIdle /\ TransmitIdle /\ CascadeIdle /\ RelatedIdle
    /\ main_src \in Sources
    /\ served = NoServe

\* _on_get_module for a module whose source is main_src, from
\* get_module_source to zlib.compress: the text is neutralized for
\* '__main__' only
serve_source(fullname) ==
    /\ served = NoServe
    /\ served' = [fullname |-> fullname,
                  source |-> IF fullname = "__main__"
                             THEN neutralize_main(main_src) ELSE main_src]
    /\ UNCHANGED <<frameVars, routerVars, notMain, main_src>>

MainNext == \E fullname \in {"__main__", "mymodule"} : serve_source(fullname)

SpecMain == MainInit /\ [][MainNext]_vars

-----------------------------------------------------------------------------
(* SpecTree: the master (context 0) with one child connected directly; a   *)
(* caller thread of the master connects further peers with proxy_connect   *)
(* through peers it already has, and sends them messages.  Frames travel   *)
(* down the tree one stream at a time; the reply of a call is taken as     *)
(* arriving once the callee has produced it.                               *)

\* Context ids run up to MaxPeers; the master sends at most MaxSends data
\* messages.
MaxPeers == 4
MaxSends == 2

TreeMsg(dst, kind, target, via) ==
    [dst_id |-> dst, kind |-> kind, target |-> target, via |-> via]

\* Router.add_route on a peer's route table: the stream of via_id becomes
\* the stream of target_id; without a stream for via_id only a log line
tree_add_route(rt, target_id, via_id) ==
    IF via_id \in DOMAIN rt THEN (target_id :> rt[via_id]) @@ rt ELSE rt

\* Context.send at the master: Router.route, and _async_route puts the
\* frame on the stream of the route table's entry for dst_id
tree_send(ch, rt, msg) ==
    [ch EXCEPT ![rt[msg.dst_id]] = Append(@, msg)]

\* a propagate_route that tells no ancestor
Bad_propagate_route(ch, rt, target, child, parent) == ch

RECURSIVE propagate_route(_, _, _, _, _)
\* The loop of master.Router.propagate_route: an ADD_ROUTE naming target and
\* child is sent to parent, then the same one level up, while there is a via.
propagate_route(ch, rt, target, child, parent) ==
    IF parent = None THEN ch
    ELSE propagate_route(
             tree_send(ch, rt, TreeMsg(parent, "ADD_ROUTE", target, child)),
             rt, target, parent, via_of[parent])

TreeInit ==
    /\ FrameIdle
    /\ Started(MasterConfig)
    /\ LayersIdle

TreeFrame == UNCHANGED <<frameVars, routerVars, notTree>>

\* proxy_connect(via_context) up to the reply of via_context.call:
\* allocate_id, add_route(context_id, via), and the CALL_FUNCTION of
\* _proxy_connect sent to via.
proxy_connect_call(via) ==
    /\ tree_pc = "idle"
    /\ via \in DOMAIN via_of
    /\ LET id == Cardinality(DOMAIN via_of) + 1
           rt == tree_add_route(routes[0], id, via)
       IN  /\ id <= MaxPeers
           /\ routes' = [routes EXCEPT ![0] = rt]
           /\ chan' = tree_send(chan, rt, TreeMsg(via, "_proxy_connect", id, None))
           /\ connecting' = [id |-> id, via |-> via]
    /\ tree_pc' = "proxy_connect"
    /\ UNCHANGED <<via_of, parent_of, call_returned, delivered, bounced, nsent>>
    /\ TreeFrame

\* Peer p reads the next frame of its parent stream and _async_route takes
\* it: for p itself, _invoke runs the handler (_proxy_connect connects and
\* registers the new peer and replies; _on_add_route adds the route; a data
\* message is handed over); for another id it goes out on the stream of the
\* route, or on the parent stream when p has no route for it.
peer_receives(p) ==
    /\ p \in DOMAIN chan
    /\ chan[p] # <<>>
    /\ LET msg  == Head(chan[p])
           rest == [chan EXCEPT ![p] = Tail(@)]
       IN  IF msg.dst_id = p
           THEN CASE msg.kind = "_proxy_connect" ->
                       /\ routes' = (msg.target :> (p :> p))
                                    @@ [routes EXCEPT ![p] = (msg.target :> msg.target) @@ @]
                       /\ parent_of' = (msg.target :> p) @@ parent_of
                       /\ chan' = (msg.target :> <<>>) @@ rest
                       /\ call_returned' = TRUE
                       /\ UNCHANGED <<delivered, bounced>>
                  [] msg.kind = "ADD_ROUTE" ->
                       /\ routes' = [routes EXCEPT
                                       ![p] = tree_add_route(@, msg.target, msg.via)]
                       /\ chan' = rest
                       /\ UNCHANGED <<parent_of, call_returned, delivered, bounced>>
                  [] OTHER ->
                       /\ delivered' = Append(delivered, msg)
                       /\ chan' = rest
                       /\ UNCHANGED <<routes, parent_of, call_returned, bounced>>
           ELSE IF msg.dst_id \in DOMAIN routes[p]
           THEN /\ chan' = tree_send(rest, routes[p], msg)
                /\ UNCHANGED <<routes, parent_of, call_returned, delivered, bounced>>
           ELSE /\ bounced' = Append(bounced, [at |-> p, msg |-> msg])
                /\ chan' = rest
                /\ UNCHANGED <<routes, parent_of, call_returned, delivered>>
    /\ UNCHANGED <<via_of, tree_pc, connecting, nsent>>
    /\ TreeFrame

\* proxy_connect from the reply of the call to its return: the Context gets
\* its via and is stored, and propagate_route adds the route again and
\* tells the ancestors of via.
proxy_connect_return ==
    /\ tree_pc = "proxy_connect"
    /\ call_returned
    /\ LET id  == connecting.id
           via == connecting.via
           rt  == tree_add_route(routes[0], id, via)
       IN  /\ via_of' = (id :> via) @@ via_of
           /\ routes' = [routes EXCEPT ![0] = rt]
           /\ chan' = propagate_route(chan, rt, id, via, via_of[via])
    /\ tree_pc' = "idle"
    /\ connecting' = [id |-> None, via |-> None]
    /\ call_returned' = FALSE
    /\ UNCHANGED <<parent_of, delivered, bounced, nsent>>
    /\ TreeFrame

\* Context.send(msg) at the master on a Context that connect or
\* proxy_connect returned.
send_data(id) ==
    /\ id \in DOMAIN via_of
    /\ nsent < MaxSends
    /\ nsent' = nsent + 1
    /\ chan' = tree_send(chan, routes[0], TreeMsg(id, "data", nsent + 1, None))
    /\ UNCHANGED <<routes, via_of, parent_of, tree_pc, connecting, call_returned,
                   delivered, bounced>>
    /\ TreeFrame

TreeNext ==
    \/ \E via \in 1..MaxPeers : proxy_connect_call(via)
    \/ \E p \in 1..MaxPeers : peer_receives(p)
    \/ proxy_connect_return
    \/ \E id \in 1..MaxPeers : send_data(id)

SpecTree == TreeInit /\ [][TreeNext]_vars

-----------------------------------------------------------------------------
(* Claims settled under SpecFrame.                                         *)

RECURSIVE Flatten(_)
Flatten(ss) == IF ss = <<>> THEN <<>> ELSE Head(ss) \o Flatten(Tail(ss))

\* a message as its frame carries it: reply_to None travels as 0
AsCarried(msg) == [msg EXCEPT !.reply_to = IF @ = None THEN 0 ELSE @]

\* the frames _send produced, from the (k+1)-th on, as one byte string
FramesFrom(k) == Flatten([i \in 1..(Len(encoded) - k) |-> Pack(encoded[k + i])])

InU32(msg) ==
    \A i \in 1..5 : HeaderValues(msg)[i] >= 0 /\ ShiftRight(HeaderValues(msg)[i], 4) = 0

\* C10 (wire header), as claimed: the header is five big-endian unsigned
\* 32-bit fields, 20 bytes, and every header whose values lie in
\* 0 .. 2^32-1 is packed by _send and unpacked by _receive_one to the same
\* five values.
C10_HeaderU32 ==
    /\ \A i \in 1..Len(struct_error) : ~InU32(struct_error[i])
    /\ \A i \in 1..Len(routed) : HeaderValues(routed[i]) = HeaderValues(encoded[i])
    /\ \A i \in 1..Len(encoded) : Len(Pack(encoded[i])) - Len(encoded[i].data) = 20

-----------------------------------------------------------------------------
(* Claims settled under SpecRouter and SpecReply.                          *)

\* the steps Broker._broker_main takes on the broker thread
BrokerThread ==
    \/ _run_defer
    \/ \E s \in Streams, msg \in FramesIn : _call_on_receive(s, msg)
    \/ \E s \in Streams : _call_on_receive_eof(s)
    \/ \E s \in Streams : _call_on_transmit(s)

\* the streams on which select() can report a read to a running broker
Readable == IF _alive THEN _readers ELSE {}

\* the elements of a sequence
Range(q) == {q[i] : i \in 1..Len(q)}

\* C2 (FIFO), as claimed.  A message m2 routed while the broker handles a
\* frame (a module reply, routed on the broker thread) enters a stream's
\* transmit queue only when no message for the same peer, handed to
\* Router.route earlier by a send that has returned, still waits in
\* Broker._queue: otherwise m2 is written, and dispatched by the peer, first.
C2_Fifo ==
    [][\A s \in Streams, msg \in FramesIn :
          _call_on_receive(s, msg) =>
             \A t \in Streams :
                \A i \in (Len(out_msgs[t]) + 1)..Len(out_msgs'[t]) :
                   out_msgs'[t][i].data.kind \in {"module", "null"} =>
                      \A k \in 1..Len(Broker_queue) :
                         Broker_queue[k].func = "_async_route" =>
                            Broker_queue[k].msg.dst_id # out_msgs'[t][i].dst_id]_vars

\* C3 (reply liveness), as claimed, under SpecReply: every Receiver made by
\* send_async sees its get() end with a value, a CallError or a ChannelError
\* (unless the broker has been shut down meanwhile).
C3_ReplyLiveness ==
    \A h \in Handles :
       (h \in DOMAIN receivers) ~>
          (\/ h \in DOMAIN receivers /\ receivers[h].outcome # "waiting"
           \/ ~_alive)

\* C4 (at-most-once reply).  The handler of a Receiver made by send_async is
\* called at most once, by a message or by _DEAD: its queue never holds two
\* items; once it holds one the handler is gone from the handler table; and
\* any frame then arriving for the handle invokes nothing, is logged and
\* leaves the queue as it is.
C4_AtMostOnce ==
    \A h \in DOMAIN receivers :
       /\ Len(Receiver_queue[h]) <= 1
       /\ Len(Receiver_queue[h]) = 1 =>
            /\ h \notin DOMAIN _handle_map
            /\ \A s \in Readable, msg \in FramesIn :
                  (msg.dst_id = context_id /\ msg.handle = h) =>
                     LET st == Receive(s, msg)
                     IN  /\ st.invoked = <<>>
                         /\ "invalid handle" \in st.logged
                         /\ st.Receiver_queue[h] = Receiver_queue[h]

\* C4's case: the reply was delivered to the receiver, and afterwards the
\* respondent's stream disconnected without adding _DEAD.
C4_Witness ==
    \E h \in DOMAIN receivers :
       /\ Len(Receiver_queue[h]) = 1
       /\ Receiver_queue[h][1] # _DEAD
       /\ receivers[h].respondent = Registered(2)
       /\ side_fd["s1"] = "closed"

\* C5 (disconnect surfaces), as claimed.  When a stream disconnects, every
\* pending Receiver whose respondent's id was routed over that stream has
\* _DEAD in its queue afterwards, whichever Context object is the respondent.
C5_DisconnectSurfaces ==
    [][\A s \in Streams :
          _call_on_receive_eof(s) =>
             \A h \in DOMAIN receivers :
                (/\ h \in DOMAIN _handle_map
                 /\ Lookup(_stream_by_id, receivers[h].respondent.context_id) = s)
                => _DEAD \in Range(Receiver_queue'[h])]_vars

\* C6 (dispatch).  A frame for this process whose handle is registered
\* invokes the handler registered there and nothing else; a persistent
\* handler is still registered afterwards; a non-persistent one is gone,
\* unless the handler registered the handle again itself, and then that
\* registration is in the table; a frame for an unknown handle invokes
\* nothing, is logged and leaves the handler table as it was.
C6_Dispatch ==
    \A s \in Readable, msg \in FramesIn :
       msg.dst_id = context_id =>
          LET st == Receive(s, msg)
              h  == msg.handle
          IN  IF h \in DOMAIN _handle_map
              THEN LET e == _handle_map[h]
                       reuses == e.fn.kind = "reuses its handle"
                   IN  /\ st.invoked = <<[handle |-> h, fn |-> e.fn]>>
                       /\ e.persist => h \in DOMAIN st._handle_map
                       /\ (e.persist /\ ~reuses) => st._handle_map[h] = e
                       /\ (~e.persist /\ ~reuses) => h \notin DOMAIN st._handle_map
                       /\ reuses =>
                            /\ h \in DOMAIN st._handle_map
                            /\ st._handle_map[h] = [persist |-> TRUE, fn |-> e.fn]
              ELSE /\ st.invoked = <<>>
                   /\ "invalid handle" \in st.logged
                   /\ st._handle_map = _handle_map

\* C6's case: a non-persistent handler was dispatched to, registered its
\* handle again while running, and that registration is in the table.
C6_Witness ==
    /\ 1000 \in DOMAIN _handle_map
    /\ _handle_map[1000] = [persist |-> TRUE, fn |-> Fn("reuses its handle")]

\* C7 (routing).  A frame for an id that is neither this process's nor a key
\* of the route table goes onto the parent stream's transmit queue, and onto
\* no other, in a process that has a parent; in the root it is logged and
\* nothing is queued on any stream.
C7_Routing ==
    \A s \in Readable, msg \in FramesIn :
       (msg.dst_id # context_id /\ msg.dst_id \notin DOMAIN _stream_by_id) =>
          LET st == Receive(s, msg)
          IN  IF parent_id # None
              THEN /\ parent_id \in DOMAIN _stream_by_id
                   /\ st.out_msgs =
                        [out_msgs EXCEPT ![_stream_by_id[parent_id]] = Append(@, msg)]
              ELSE /\ "no route" \in st.logged
                   /\ st.out_msgs = out_msgs

\* C7's case: a slave has queued a frame for the unknown id 7 on its parent
\* stream.
C7_Witness ==
    \E i \in 1..Len(out_msgs["parent"]) : out_msgs["parent"][i].dst_id = 7

\* the stream a frame with this source id is expected on
ExpectedStream(msg) ==
    IF msg.src_id \in DOMAIN _stream_by_id THEN _stream_by_id[msg.src_id]
    ELSE Lookup(_stream_by_id, parent_id)

\* C8 (source verification), as claimed.  A frame arriving on a stream other
\* than the one expected for its source id is logged and dropped: no handler
\* is invoked, nothing is queued on any stream, and the stream it came on
\* stays open.
C8_SourceVerified ==
    \A s \in Readable, msg \in FramesIn :
       s # ExpectedStream(msg) =>
          LET st == Receive(s, msg)
          IN  /\ "bad source" \in st.logged
              /\ st.invoked = <<>>
              /\ st.out_msgs = out_msgs
              /\ st.side_fd[s] = "open"

\* C9 (thread confinement), as claimed.  Every step that changes the route
\* table or the handler table is a step of the broker thread.
C9_BrokerOnly ==
    [][(_stream_by_id' # _stream_by_id \/ _handle_map' # _handle_map)
          => BrokerThread]_vars

-----------------------------------------------------------------------------
(* Claims settled under SpecBroker.                                        *)

\* C11 (wake-up): whenever a thread other than the broker's calls
\* Broker.defer while the broker thread has not exited, the function is put
\* on the queue and one byte is written to the wake pipe.
C11_WakeUp ==
    [][(\E kind \in DeferredKinds : defer_call(kind))
         => /\ Len(Broker_queue') = Len(Broker_queue) + 1
            /\ wake_pipe' = wake_pipe + 1]_vars

\* the places of the history where ev was recorded
Idx(ev) == {i \in DOMAIN events : events[i].ev = ev}

\* C12 (shutdown ordering): after Broker.shutdown() the broker thread runs
\* every function deferred before the first shutdown(), then fires
\* 'shutdown' once, then calls on_shutdown on the registered streams (a child
\* stream sends SHUTDOWN), then runs deferred functions in the drain loop
\* only, which ends with keep_alive() zero or the deadline passed, then
\* disconnects the streams that are left, and fires 'exit' once, last.
C12_ShutdownOrdering ==
    LET fs == Idx("fire shutdown")
        de == Idx("drain ended")
        fe == Idx("fire exit")
        sd == Idx("shutdown()")
    IN  /\ Cardinality(fs) <= 1 /\ Cardinality(de) <= 1 /\ Cardinality(fe) <= 1
        /\ \A i \in fs : \E j \in sd : j < i
        /\ \A i \in fs : \A d \in Idx("defer") :
             (\E j \in sd : d < j /\ \A j2 \in sd : j <= j2)
                => \E r \in Idx("run") : r < i /\ events[r].k = events[d].k
        /\ \A i \in Idx("on_shutdown") :
             /\ \E j \in fs : j < i
             /\ \A d \in de : i < d
             /\ events[i].stream \notin {"waker", "parent"}
                  => \/ \E m \in DOMAIN out_msgs[events[i].stream] :
                          out_msgs[events[i].stream][m].handle = SHUTDOWN
                     \/ \E m \in Idx("sent") :
                          /\ m > i
                          /\ events[m].stream = events[i].stream
                          /\ events[m].k = SHUTDOWN
                     \/ side_fd[events[i].stream] = "closed"
        /\ \A r \in Idx("run") : \A d \in de : r < d
        /\ \A d \in de :
             /\ \E j \in fs : j < d
             /\ events[d].k = 0 \/ deadline_passed
        /\ \A i \in Idx("on_disconnect") : \E d \in de : d < i
        /\ \A i \in fe : i = Len(events) /\ de # {}
        /\ pc \in {"main", "select"} => fs = {}
        /\ pc \in {"drain", "drain_select"}
             => /\ fs # {} /\ de = {}
                /\ \A s \in _readers \cup _writers :
                     \E i \in Idx("on_shutdown") : events[i].stream = s
        /\ pc \in {"exit", "done"} => de # {} /\ _readers = {} /\ _writers = {}
        /\ pc = "done" <=> fe # {}

\* the broker thread has exited after a shutdown() that found a deferred
\* function waiting, with a child that never closed its stream
C12_Witness ==
    /\ pc = "done"
    /\ deadline_passed
    /\ \E d \in Idx("defer") : \E j \in Idx("shutdown()") : d < j
    /\ \E i \in Idx("on_disconnect") : events[i].stream = "s1"
    /\ \E m \in Idx("sent") : events[m].k = SHUTDOWN

\* C13 (shutdown termination): once Broker.shutdown() has been called, from
\* any thread, the broker thread eventually fires 'exit' and ends, with its
\* reader and writer sets empty.
C13_ShutdownTerminates ==
    (~_alive) ~> (pc = "done" /\ _readers = {} /\ _writers = {})

\* C15 (no blocking call on the broker thread): call_async or send_async
\* called on the broker thread raises, and has registered no handler, taken
\* no handle, created no Receiver queue, queued no routing and touched no
\* outbound queue.
C15_FailsEarly ==
    \A ctx \in ContextObjs :
        LET st == call_async_on(St, ctx, "broker")
        IN  /\ st.exc = "SystemError"
            /\ [st EXCEPT !.exc = ""] = St

\* a deferred function that calls call_async has run on the broker thread,
\* and _run_defer has shut the broker down for it
C15_Witness ==
    /\ \E i \in Idx("run") : events[i].stream = "fn calling call_async"
    /\ Idx("shutdown()") # {}
    /\ \A i \in DOMAIN events : events[i].ev # "defer" \/ events[i].k = 1
    /\ ~_alive
    /\ DOMAIN _handle_map = DOMAIN MasterConfig._handle_map

-----------------------------------------------------------------------------
(* Claims settled under SpecDispatch.                                      *)

\* the replies routed for item number i of the CALL_FUNCTION channel
RepliesTo(i) == {j \in DOMAIN replies : replies[j].item = i}

\* C14 (remote call reply): for every CALL_FUNCTION message the dispatch
\* loop has taken, exactly one reply was routed, to the request's src_id
\* with the request's reply_to as handle, carrying the value of a call that
\* returned and a CallError for one that raised; and the loop has not been
\* left by an exception.
C14_CallReply ==
    /\ dispatch_pc # "crashed"
    /\ \A i \in 1..taken :
         LET item == Receiver_queue[CALL_FUNCTION][i]
         IN  item # _DEAD =>
               /\ Cardinality(RepliesTo(i)) = 1
               /\ \A j \in RepliesTo(i) :
                    /\ replies[j].msg.dst_id = item.src_id
                    /\ replies[j].msg.handle = item.reply_to
                    /\ replies[j].msg.data.kind =
                         (IF item.data.kind = "call" THEN "value" ELSE "CallError")

\* C16 (SHUTDOWN authority): in a slave, a SHUTDOWN message whose src_id is
\* not parent_id leaves the broker as it was and is logged as ignored, and
\* one whose src_id is parent_id shuts the broker down.
C16_ShutdownAuthority ==
    \A s \in _readers : \A src \in PeerIds :
        LET st == Receive(s, ShutdownFrame(src))
        IN  IF src # parent_id
            THEN /\ st._alive = _alive
                 /\ "Ignoring SHUTDOWN from non-parent" \in st.logged
            ELSE ~st._alive

\* the parent's SHUTDOWN has shut the broker down while the dispatch loop
\* was waiting for its first message
C16_Witness ==
    /\ ~_alive
    /\ "parent" \in _readers
    /\ dispatch_pc = "running" /\ taken = 0 /\ nrecv = 0

-----------------------------------------------------------------------------
(* Claims settled under SpecIds.                                           *)

\* C17 (id allocation): under any interleaving of allocate() calls the ids
\* handed out are at least 1 and strictly increasing, hence distinct, and
\* every process brought up has a context_id that is none of its parent_ids
\* and no other process's context_id.
C17_IdAllocation ==
    /\ \A i \in DOMAIN handed : handed[i] >= 1
    /\ \A i, j \in DOMAIN handed : i < j => handed[i] < handed[j]
    /\ \A q \in peers :
         /\ \A k \in DOMAIN q.parent_ids : q.context_id # q.parent_ids[k]
         /\ \A r \in peers : r.context_id = q.context_id => r = q

\* every id was handed out, by caller threads and by the broker thread, and
\* a peer has a grandparent
C17_Witness ==
    /\ Len(handed) = MaxIds
    /\ \E q \in peers : Len(q.parent_ids) >= 2
    /\ alloc["broker"].id_ >= 1
    /\ alloc["caller1"].id_ >= 1

-----------------------------------------------------------------------------
(* Claims settled under SpecSelect and SpecSelectGraph.                    *)

\* recv is in the _receivers list of sel
IsMember(st, sel, recv) ==
    \E i \in DOMAIN st._receivers[sel] : st._receivers[sel][i] = recv

\* C18 (add of an owned receiver): Select.add of a receiver whose notify is
\* another Select's raises SelectError and changes no membership and no
\* notify, and a close() of the refusing Select after it succeeds as it
\* would have before.
C18_OwnedRefused ==
    \A sel \in Selects : \A recv \in Selects \cup Receivers :
        (notify[recv] # NoOwner /\ notify[recv] # sel)
        => LET st == Select_add(SelSt, sel, recv)
           IN  /\ st.exc = "SelectError"
               /\ st._receivers = _receivers
               /\ st.notify = notify
               /\ Select_close(SelSt, sel).exc = ""
                    => Select_close([st EXCEPT !.exc = ""], sel).exc = ""

\* C19 (Select notification): whenever a Receiver that is a member of a
\* Select holds a message, and no thread is inside that Select's get() or
\* between the two halves of its add() of that Receiver, the Select's queue
\* holds a notification naming the Receiver.
C19_Notified ==
    \A sel \in Selects : \A r \in Receivers :
        ( /\ notify[r] = sel
          /\ IsMember(SelSt, sel, r)
          /\ recv_msgs[r] >= 1
          /\ ~getting[sel]
          /\ adding[sel] # r )
        => \E i \in DOMAIN Select_queue[sel] : Select_queue[sel][i] = r

RECURSIVE Reaches(_, _, _)
\* to is reachable from from through at most n steps of membership, n >= 1
Reaches(from, to, n) ==
    \E i \in DOMAIN _receivers[from] :
        LET m == _receivers[from][i]
        IN  \/ m = to
            \/ m \in Selects /\ n > 1 /\ Reaches(m, to, n - 1)

\* C20 (Select cycles): no Select is reachable from itself through
\* membership, and add(s) of a Select s that is the Select itself, or from
\* which the Select is reachable, raises SelectError and changes no
\* membership and no notify.
C20_NoCycles ==
    /\ \A sel \in Selects : ~Reaches(sel, sel, Cardinality(Selects))
    /\ \A sel \in Selects : \A s \in Selects :
         (s = sel \/ Reaches(s, sel, Cardinality(Selects)))
         => LET st == Select_add(SelSt, sel, s)
            IN  /\ st.exc = "SelectError"
                /\ st._receivers = _receivers
                /\ st.notify = notify

\* sel_a holds sel_b, which holds sel_c: adding sel_a to sel_c is refused
\* through sel_b
C20_Witness ==
    /\ IsMember(SelSt, "sel_a", "sel_b") /\ notify["sel_b"] = "sel_a"
    /\ IsMember(SelSt, "sel_b", "sel_c") /\ notify["sel_c"] = "sel_b"
    /\ adding = [sel \in Selects |-> NoOwner]
    /\ Select_add(SelSt, "sel_c", "sel_a").exc = "SelectError"

\* ---------------------------------------------------------------------------
\* SpecRouter claims: the module responder
\* ---------------------------------------------------------------------------

\* the GET_MODULE requests a peer may write to this process
GetModuleRequests == { msg \in FramesIn : msg.handle = GET_MODULE }

\* what the try block of _on_get_module builds for the request
ModulePayload(msg) ==
    IF msg.data.kind = "fullname of a module" THEN "module" ELSE "null"

-----------------------------------------------------------------------------
(* Claims settled under SpecImport.                                        *)

\* the requests sent to the parent for fullname on behalf of `by`
SentFor(fullname, by) ==
    { i \in DOMAIN to_parent :
        to_parent[i].fullname = fullname /\ to_parent[i].by = by }

\* C22 (module forwarder): for every fullname the ModuleForwarder has sent
\* at most one GET_MODULE request to its parent, and every reply it served
\* from the importer's cache carries the content the first reply for that
\* name carried.
C22_ForwardOnce ==
    /\ \A fullname \in Fullnames :
          Cardinality(SentFor(fullname, "ModuleForwarder")) <= 1
    /\ \A i, j \in DOMAIN to_child :
          (i < j /\ to_child[i].fullname = to_child[j].fullname)
          => /\ to_child[j].cached
             /\ to_child[j].data = to_child[i].data

\* C23 (importer cache): the Importer has sent at most one GET_MODULE request
\* per fullname, and every load_module of a name loaded before sent nothing
\* and ended as the cached entry says: ImportError for a name the master
\* answered with null, the module otherwise.
C23_LoadOnce ==
    /\ \A fullname \in Fullnames :
          Cardinality(SentFor(fullname, "Importer")) <= 1
    /\ \A i, j \in DOMAIN loads :
          (i < j /\ loads[i].fullname = loads[j].fullname)
          => /\ ~loads[j].sent
             /\ loads[j].outcome = LoadOutcome(MasterAnswer(loads[j].fullname))

\* the name the master does not have was loaded twice: the first load asked
\* the parent, the second raised ImportError from the cached None
C23_Witness ==
    /\ Len(loads) = 2
    /\ loads[1] = [fullname |-> "missing", sent |-> TRUE, outcome |-> "ImportError"]
    /\ loads[2] = [fullname |-> "missing", sent |-> FALSE, outcome |-> "ImportError"]

-----------------------------------------------------------------------------
(* Claims settled under SpecPickle.                                        *)

\* C24 (pickle round trip): a Context with any id >= 0 and any name, _DEAD,
\* and a CallError with a text of any length, given to Message.pickled and
\* then unpickled by a receiver whose message has its router, come back
\* without an exception and equal to the object pickled.
C24_RoundTrip ==
    ( /\ pickle_pc = "unpickled"
      /\ Message_router
      /\ obj.cls \in {"Context", "Dead", "CallError"} )
    => /\ unpickled.exc = ""
       /\ unpickled.value = obj

\* the globals Message.unpickle may resolve
Whitelist == {"_unpickle_call_error", "_unpickle_dead", "_unpickle_context"}

\* C25 (unpickle whitelist): unpickle calls a global only when it is one of
\* mitogen.core's three _unpickle functions; for any other module or name
\* it raises StreamError, calls nothing and returns nothing, and whatever it
\* returns is None, a CallError, _DEAD or a Context.
C25_Whitelist ==
    pickle_pc = "unpickled"
    => /\ unpickled.called \subseteq Whitelist
       /\ unpickled.value.cls \in {"", "NoneType", "CallError", "Dead", "Context"}
       /\ ( Message_data.op = "REDUCE"
            /\ ~(Message_data.module = "mitogen.core"
                 /\ Message_data.func \in Whitelist) )
          => /\ unpickled.exc = "StreamError"
             /\ unpickled.called = {}
             /\ unpickled.value = NoObj

\* a peer's pickle naming mitogen.core's Context class itself, with a
\* well-formed argument tuple, was refused
C25_Witness ==
    /\ pickle_pc = "unpickled"
    /\ Message_data = Pickle("REDUCE", "mitogen.core", "Context",
                             <<IntArg(1), StrArg(Str("name", 1))>>)
    /\ unpickled.exc = "StreamError"

-----------------------------------------------------------------------------
(* Claims settled under SpecBoot.                                          *)

\* C26 (bootstrap order): no part of the preamble is written before a chunk
\* ending in EC0 was read, EC1 is awaited only with the whole preamble
\* written, the stream is registered only after a chunk ending in EC1 was
\* read, and a connect() that raised never registers the stream.
C26_BootOrder ==
    /\ preamble_written > 0 => ec0_read
    /\ boot_pc = "discard_until EC1" => preamble_written = PreambleLen
    /\ registered => (ec0_read /\ preamble_written = PreambleLen /\ ec1_read)
    /\ raised # "" => ~registered

\* an ssh stream that sent its password and was registered
C26_Witness ==
    /\ klass = "ssh.Stream"
    /\ password_sent
    /\ registered
    /\ tty_out = <<"secret\n", "preamble", "preamble">>

\* the chunk holds the words, in any case
Holds(buf, words) == \E i \in DOMAIN buf : buf[i] \in words

\* C27 (ssh prompts): of the chunks an ssh stream reads while waiting for
\* EC0, one ending in EC0 goes on to the preamble; any other holding
\* 'permission denied' in any case raises the bad-password error when the
\* password was sent before and the authentication error when not; any
\* other holding 'password' raises when no password is configured and
\* otherwise writes the password and a newline and sets password_sent.
C27_SshPrompts ==
    (klass = "ssh.Stream" /\ last_step # NoStep)
    => LET buf    == last_step.buf
           ends   == buf[Len(buf)] = "EC0\n"
           denied == Holds(buf, {"Permission denied", "permission denied"})
           prompt == Holds(buf, {"Password:", "password"})
       IN  /\ ends => (last_step.outcome = "_ec0_received"
                       /\ boot_pc # "discard_until EC0")
           /\ (~ends /\ denied)
              => /\ last_step.outcome =
                      IF last_step.sent_before
                      THEN "PasswordError: SSH password is incorrect"
                      ELSE "PasswordError: SSH authentication is incorrect"
                 /\ raised = last_step.outcome
           /\ (~ends /\ ~denied /\ prompt)
              => IF password = "None"
                 THEN /\ last_step.outcome =
                           "PasswordError: SSH password was requested, but none specified"
                      /\ raised = last_step.outcome
                 ELSE /\ last_step.outcome = "sending password"
                      /\ password_sent
                      /\ \E i \in DOMAIN tty_out : tty_out[i] = password \o "\n"

\* after the password was sent, ssh answered "Permission denied" and asked
\* again in one chunk: the bad-password error left connect()
C27_Witness ==
    /\ klass = "ssh.Stream"
    /\ last_step = [buf |-> <<"Permission denied", "Password:">>,
                    sent_before |-> TRUE,
                    outcome |-> "PasswordError: SSH password is incorrect"]
    /\ raised = "PasswordError: SSH password is incorrect"

\* C28 (bootstrap failure): once an exception has left connect(), the child
\* process create_child forked has been killed.
C28_FailureKillsChild ==
    raised # "" => child_proc = "killed"

-----------------------------------------------------------------------------
(* Claims settled under SpecMain.                                          *)

\* the lines that start with the guard
GuardLines ==
    { <<"if", " ", "__name__", " ", "==", " ", "'__main__'", ":">>,
      <<"if", " ", " ", "__name__", "==", "\"__main__\"", ":", " ", "main()">> }

\* C29 (neutralize_main): for a text with a line starting with the guard,
\* neutralize_main returns the lines before the first such line; for a text
\* without one it returns the text; applied to its own result it changes
\* nothing; and the source served for '__main__' is the neutralized text.
C29_Neutralized ==
    LET n == neutralize_main(main_src)
        guards == { i \in DOMAIN main_src : main_src[i] \in GuardLines }
    IN  /\ guards = {} => n = main_src
        /\ guards # {}
           => \E i \in guards :
                 /\ \A j \in guards : i <= j
                 /\ n = SubSeq(main_src, 1, i - 1)
        /\ neutralize_main(n) = n
        /\ served.fullname = "__main__" => served.source = n

\* a text with an indented guard, then the guard, then more code was served
\* for '__main__' cut before the second line
C29_Witness ==
    /\ Len(main_src) = 3
    /\ main_src[1] = <<" ", "if", " ", "__name__", " ", "==", " ", "'__main__'", ":">>
    /\ main_src[2] \in GuardLines
    /\ served = [fullname |-> "__main__", source |-> <<main_src[1]>>]

-----------------------------------------------------------------------------
(* Claims settled under SpecRouter: routes of a disconnected stream.       *)

\* C30 (routes after disconnect): once a stream has disconnected (both its
\* sides are closed), no entry of the route table maps any peer id to it,
\* whether register, a local add_route or an ADD_ROUTE message made the
\* entry.
C30_NoStaleRoute ==
    \A s \in Streams :
        side_fd[s] = "closed"
        => \A id \in DOMAIN _stream_by_id : _stream_by_id[id] # s

-----------------------------------------------------------------------------
(* Claims settled under SpecRouter: undeliverable frames.                  *)

\* frames for other peers, as a peer may write them on a stream
ForwardedFrames ==
    { [dst_id |-> dst, src_id |-> src, handle |-> CALL_FUNCTION,
       reply_to |-> 5, data |-> Data("call")] :
      dst \in {2, 3, 7} \ {context_id}, src \in {0, 2} }

\* the frame has no stream to go out on, or only one that has disconnected
Undeliverable(msg) ==
    LET byid == Lookup(_stream_by_id, msg.dst_id)
        out  == IF byid = NoStream THEN Lookup(_stream_by_id, parent_id) ELSE byid
    IN  out = NoStream \/ side_fd[out] # "open"

\* C31 (undeliverable frames): when a frame that cannot be delivered (no
\* route and no parent stream, or a route to a stream that has
\* disconnected) is read from a stream, the stream it arrived on stays
\* connected, the broker keeps running, and nothing but the log changes.
C31_Contained ==
    \A s \in _readers : \A msg \in ForwardedFrames :
        (_alive /\ Undeliverable(msg))
        => LET st == Receive(s, msg)
           IN  /\ s \in st._readers
               /\ st.side_fd[s] = "open"
               /\ st._alive
               /\ st.out_msgs = out_msgs

-----------------------------------------------------------------------------
(* Claims settled under SpecTree.                                          *)

\* C32 (route propagation): no frame the master sent towards a peer it
\* connected through proxy_connect is sent back to its parent by a peer on
\* the way for want of a route, and a peer about to forward such a data
\* message already holds the route for its destination.
C32_RoutesInstalled ==
    /\ bounced = <<>>
    /\ \A p \in DOMAIN chan :
          (chan[p] # <<>> /\ Head(chan[p]).dst_id # p)
          => Head(chan[p]).dst_id \in DOMAIN routes[p]

\* a data message reached a peer three levels below the master
C32_Witness ==
    \E i \in DOMAIN delivered :
        LET id == delivered[i].dst_id
        IN  /\ via_of[id] # None
            /\ via_of[via_of[id]] # None
            /\ parent_of[id] = via_of[id]

-----------------------------------------------------------------------------
(* SpecTransmit: Stream._send, Stream.on_transmit and Side.write on one    *)
(* stream whose peer accepts any part of what a write offers.              *)

\* At most this many frames are handed to _send.
MaxQueued == 2

\* At most this many times select reports the transmit side writable.
MaxWrites == 5

\* The lengths of the frames _send packs: a bare header, a frame of one
\* chunk exactly, and frames longer than a chunk.
FrameLens == {HEADER_LEN, CHUNK_SIZE, CHUNK_SIZE + HEADER_LEN, 2 * CHUNK_SIZE + 1}

\* the buffer holding bytes from .. from + len - 1 of the frame-th frame
Buf(frame, from, len) == [frame |-> frame, from |-> from, len |-> len]

\* buf[:n]
SliceTo(buf, n) == [buf EXCEPT !.len = Min(@, n)]

Bad_SliceFrom(buf, n) == buf

\* buf[n:]
SliceFrom(buf, n) ==
    [buf EXCEPT !.from = @ + Min(n, buf.len), !.len = @ - Min(n, buf.len)]

\* What os.write may return when offered k >= 1 bytes on a writable
\* non-blocking descriptor: any count from 1 to k.  One byte, half, all but
\* one and all stand for the range.
Accepts(k) == {1, k \div 2, k - 1, k} \cap (1..k)

TransmitInit ==
    /\ FrameIdle
    /\ Started(MasterConfig)
    /\ LayersIdle

TransmitFrame == UNCHANGED <<frameVars, routerVars, notTransmit>>

\* Stream._send(msg) on the broker thread, for a message whose frame is len
\* bytes: the frame is appended, then Broker.start_transmit asserts the
\* transmit side's fd and adds the side to _writers at once.
tx_send(len) ==
    /\ Len(frame_lens) < MaxQueued
    /\ frame_lens' = Append(frame_lens, len)
    /\ tx_output_buf' = Append(tx_output_buf, Buf(Len(frame_lens) + 1, 0, len))
    /\ IF transmit_fd = "None"
       THEN send_failed' = send_failed + 1 /\ UNCHANGED tx_writers
       ELSE tx_writers' = TRUE /\ UNCHANGED send_failed
    /\ tx_pc' = "_send"
    /\ UNCHANGED <<transmit_fd, write_log>>
    /\ TransmitFrame

\* Stream.on_transmit, run by the broker for a member of _writers, with
\* Side.write offering buf[:CHUNK_SIZE] and os.write accepting `written`
\* bytes of it: the unwritten rest goes back to the head of the queue, and
\* an empty queue ends in stop_transmit.
tx_on_transmit ==
    /\ tx_writers
    /\ Len(write_log) < MaxWrites
    /\ IF tx_output_buf = <<>>
       THEN tx_writers' = FALSE /\ UNCHANGED <<tx_output_buf, write_log>>
       ELSE LET buf == Head(tx_output_buf)
            IN  \E written \in Accepts(SliceTo(buf, CHUNK_SIZE).len) :
                  /\ write_log' = Append(write_log, SliceTo(buf, written))
                  /\ tx_output_buf' =
                       IF written # buf.len
                       THEN <<SliceFrom(buf, written)>> \o Tail(tx_output_buf)
                       ELSE Tail(tx_output_buf)
                  /\ tx_writers' = (tx_output_buf' # <<>>)
    /\ tx_pc' = "on_transmit"
    /\ UNCHANGED <<transmit_fd, frame_lens, send_failed>>
    /\ TransmitFrame

\* Stream.on_transmit when the write finds the peer gone (Side.write returns
\* None): the popped buffer is dropped and on_disconnect runs stop_transmit
\* and closes both sides.
tx_on_transmit_disconnected ==
    /\ tx_writers
    /\ tx_output_buf # <<>>
    /\ tx_output_buf' = Tail(tx_output_buf)
    /\ tx_writers' = FALSE
    /\ transmit_fd' = "None"
    /\ tx_pc' = "on_transmit"
    /\ UNCHANGED <<frame_lens, write_log, send_failed>>
    /\ TransmitFrame

TransmitNext ==
    \/ \E len \in FrameLens : tx_send(len)
    \/ tx_on_transmit
    \/ tx_on_transmit_disconnected

SpecTransmit == TransmitInit /\ [][TransmitNext]_vars

-----------------------------------------------------------------------------
(* C33: the transmit queue under short writes.                             *)

\* the offset of byte `from` of the frame-th frame in the concatenation of
\* the frames in the order _send queued them
RECURSIVE StreamOffset(_, _)
StreamOffset(frame, from) ==
    IF frame = 1 THEN from
    ELSE frame_lens[frame - 1] + StreamOffset(frame - 1, from)

\* the number of bytes the first k writes put on the descriptor
RECURSIVE WrittenBefore(_)
WrittenBefore(k) == IF k = 0 THEN 0 ELSE write_log[k].len + WrittenBefore(k - 1)

\* C33 (transmit queue).  Whatever part of each offer the descriptor
\* accepts, the bytes written so far are a prefix of the queued frames laid
\* end to end in the order _send queued them: every write put down the
\* bytes that follow, in that concatenation, the bytes of the writes
\* before it, all of them from one frame; no write is longer than
\* CHUNK_SIZE; and when an on_transmit that wrote has returned, the
\* transmit side is in the broker's writer set exactly when the output
\* queue is not empty.
C33_TransmitQueue ==
    /\ \A i \in DOMAIN write_log :
          /\ write_log[i].frame \in DOMAIN frame_lens
          /\ write_log[i].len >= 1
          /\ write_log[i].from + write_log[i].len <= frame_lens[write_log[i].frame]
          /\ StreamOffset(write_log[i].frame, write_log[i].from) = WrittenBefore(i - 1)
          /\ write_log[i].len <= CHUNK_SIZE
    /\ (tx_pc = "on_transmit" /\ transmit_fd = "open")
          => (tx_writers <=> tx_output_buf # <<>>)

\* C33's case: a frame longer than a chunk has gone out in a full chunk, a
\* short write and the rest, the second frame has been begun by a short
\* write, and the side is still in the writer set for what remains.
C33_Witness ==
    /\ tx_pc = "on_transmit" /\ transmit_fd = "open"
    /\ Len(frame_lens) = 2 /\ frame_lens[1] > CHUNK_SIZE
    /\ Len(write_log) >= 4
    /\ write_log[1].len = CHUNK_SIZE
    /\ write_log[2].len < frame_lens[1] - CHUNK_SIZE
    /\ write_log[Len(write_log)].frame = 2
    /\ tx_output_buf # <<>> /\ tx_output_buf[1].from > 0
    /\ tx_writers

-----------------------------------------------------------------------------
(* SpecCascade: Broker._broker_main, master.Stream.on_shutdown,            *)
(* ExternalContext._on_shutdown_msg and Context.on_disconnect in every     *)
(* peer of a tree, from the master's Broker.shutdown on.                   *)

\* The trees: a slave is connected by the master or by a slave connected
\* before it.
TreeShapes == {par \in [1..MaxSlaves -> CascadePeers] : \A p \in 1..MaxSlaves : par[p] < p}

CascadeInit ==
    /\ FrameIdle
    /\ Started(MasterConfig)
    /\ BrokerIdle /\ DispatchIdle /\ IdsIdle /\ ImportIdle /\ RelatedIdle /\ TreeIdle /\ MainIdle /\ BootIdle /\ PickleIdle /\ TransmitIdle
    /\ SelectsUnused
    /\ \E par \in TreeShapes : CascadeNew(par)

CascadeFrame == UNCHANGED <<frameVars, routerVars, notCascade>>

\* Side.keep_alive of the receive side of p's stream q: False for a slave's
\* parent stream (ExternalContext._setup_master), True otherwise.
keeps_alive(p, q) == ~(p # 0 /\ tree_parent[p] = q)

\* Broker.keep_alive(): the keep_alive readers; nothing is deferred here.
cascade_keep_alive(p) == Cardinality({q \in readers_of[p] : keeps_alive(p, q)})

\* master.Context.on_disconnect, the Context of every child
Bad_parent_gone(p, q) == alive_of[p]

\* Context.on_disconnect as Router.on_disconnect calls it for the context
\* registered on p's stream q, giving Broker._alive: the slave's parent is
\* a core.Context, which calls broker.shutdown(); a child is a
\* master.Context, which only fires 'disconnect'.
parent_gone(p, q) ==
    IF p # 0 /\ tree_parent[p] = q THEN FALSE ELSE alive_of[p]

\* the cause recorded when p's broker is first shut down
Cause(p, alive, what) ==
    IF p # 0 /\ alive_of[p] /\ ~alive
    THEN [shutdown_cause EXCEPT ![p] = what] ELSE shutdown_cause

\* In the master, the thread watching the main thread calls
\* Broker.shutdown(): _alive = False, and the Waker makes select return.
master_shutdown ==
    /\ alive_of[0]
    /\ alive_of' = [alive_of EXCEPT ![0] = FALSE]
    /\ UNCHANGED <<tree_parent, loop_pc, readers_of, output_of, inflight,
                   closed_end, shutdown_cause>>
    /\ CascadeFrame

\* `while self._alive` found false.
leave_loop(p) ==
    /\ loop_pc[p] = "loop" /\ ~alive_of[p]
    /\ loop_pc' = [loop_pc EXCEPT ![p] = "after_loop"]
    /\ UNCHANGED <<tree_parent, alive_of, readers_of, output_of, inflight,
                   closed_end, shutdown_cause>>
    /\ CascadeFrame

\* _broker_main between the two loops: fire 'shutdown', then on_shutdown of
\* every registered stream.  master.Stream.on_shutdown (a child's stream)
\* queues a SHUTDOWN frame; core.Stream.on_shutdown (a slave's parent
\* stream) does nothing.
cascade_after_loop(p) ==
    /\ loop_pc[p] = "after_loop"
    /\ output_of' = [output_of EXCEPT ![p] =
                       [q \in CascadePeers |->
                          IF q \in readers_of[p] /\ ~(p # 0 /\ tree_parent[p] = q)
                          THEN @[q] + 1 ELSE @[q]]]
    /\ loop_pc' = [loop_pc EXCEPT ![p] = "drain"]
    /\ UNCHANGED <<tree_parent, alive_of, readers_of, inflight, closed_end,
                   shutdown_cause>>
    /\ CascadeFrame

\* Stream.on_disconnect of p's stream q: both sides leave the broker's sets
\* and are closed, and Router.on_disconnect tells the context.
cascade_disconnect(p, q, what) ==
    /\ readers_of' = [readers_of EXCEPT ![p] = @ \ {q}]
    /\ output_of' = [output_of EXCEPT ![p][q] = 0]
    /\ closed_end' = [closed_end EXCEPT ![p][q] = TRUE]
    /\ alive_of' = [alive_of EXCEPT ![p] = parent_gone(p, q)]
    /\ shutdown_cause' = Cause(p, parent_gone(p, q), what)

\* _loop_once: p's stream q is writable and has a frame queued.  The frame
\* is written, or the write finds the far end closed and the stream is
\* disconnected.
cascade_on_transmit(p, q) ==
    /\ loop_pc[p] \in {"loop", "drain"}
    /\ q \in readers_of[p] /\ output_of[p][q] > 0
    /\ IF closed_end[q][p]
       THEN /\ cascade_disconnect(p, q, "disconnect")
            /\ UNCHANGED inflight
       ELSE /\ output_of' = [output_of EXCEPT ![p][q] = @ - 1]
            /\ inflight' = [inflight EXCEPT ![p][q] = @ + 1]
            /\ UNCHANGED <<alive_of, readers_of, closed_end, shutdown_cause>>
    /\ UNCHANGED <<tree_parent, loop_pc>>
    /\ CascadeFrame

\* _loop_once: p's stream q is readable.  A SHUTDOWN frame goes to
\* _on_shutdown_msg, which shuts the broker down when it comes from
\* mitogen.parent_id; a zero-byte read is the far end closed, and the
\* stream is disconnected.
cascade_on_receive(p, q) ==
    /\ loop_pc[p] \in {"loop", "drain"}
    /\ q \in readers_of[p]
    /\ \/ /\ inflight[q][p] > 0
          /\ inflight' = [inflight EXCEPT ![q][p] = @ - 1]
          /\ LET alive == IF p # 0 /\ q = tree_parent[p] THEN FALSE ELSE alive_of[p]
             IN  /\ alive_of' = [alive_of EXCEPT ![p] = alive]
                 /\ shutdown_cause' = Cause(p, alive, "SHUTDOWN")
          /\ UNCHANGED <<readers_of, output_of, closed_end>>
       \/ /\ inflight[q][p] = 0 /\ closed_end[q][p]
          /\ cascade_disconnect(p, q, "disconnect")
          /\ UNCHANGED inflight
    /\ UNCHANGED <<tree_parent, loop_pc>>
    /\ CascadeFrame

\* The drain loop ends, keep_alive() being zero or time.time() having
\* reached the deadline (timed_out): every stream still registered is
\* disconnected, its frames still queued are dropped, and 'exit' is fired
\* (a slave then kills its own process).
drain_ends(p, timed_out) ==
    /\ loop_pc[p] = "drain"
    /\ cascade_keep_alive(p) = 0 \/ timed_out
    /\ readers_of' = [readers_of EXCEPT ![p] = {}]
    /\ output_of' = [output_of EXCEPT ![p] = [q \in CascadePeers |-> 0]]
    /\ closed_end' = [closed_end EXCEPT ![p] =
                        [q \in CascadePeers |-> @[q] \/ q \in StreamsOf(tree_parent, p)]]
    /\ loop_pc' = [loop_pc EXCEPT ![p] = "exit"]
    /\ UNCHANGED <<tree_parent, alive_of, inflight, shutdown_cause>>
    /\ CascadeFrame

\* the steps of the broker threads and of time
CascadeStep ==
    \/ \E p \in CascadePeers : leave_loop(p)
    \/ \E p \in CascadePeers : cascade_after_loop(p)
    \/ \E p, q \in CascadePeers : cascade_on_transmit(p, q)
    \/ \E p, q \in CascadePeers : cascade_on_receive(p, q)
    \/ \E p \in CascadePeers, timed_out \in BOOLEAN : drain_ends(p, timed_out)

CascadeNext == master_shutdown \/ CascadeStep

\* Every broker thread is scheduled and time goes by.
SpecCascade == CascadeInit /\ [][CascadeNext]_vars /\ WF_vars(CascadeStep)

-----------------------------------------------------------------------------
(* C34: cascading shutdown.                                                *)

\* C34 (cascading shutdown).  Once the master's broker has been shut down,
\* every slave of the tree, child of the master or proxied descendant at
\* any depth, eventually shuts its own broker down and leaves its main
\* loop, and does so because SHUTDOWN came from its own parent or because
\* its parent stream was disconnected; none goes on running.
C34_Cascade ==
    (~alive_of[0]) ~>
        \A p \in 1..MaxSlaves :
            /\ ~alive_of[p]
            /\ loop_pc[p] = "exit"
            /\ shutdown_cause[p] \in {"SHUTDOWN", "disconnect"}

\* C34's case: in a chain master, child, grandchild, great-grandchild every
\* broker has exited, the last slave on its parent's SHUTDOWN and its
\* parent on a disconnect.
C34_Witness ==
    /\ tree_parent[2] = 1 /\ tree_parent[3] = 2
    /\ \A p \in CascadePeers : loop_pc[p] = "exit"
    /\ shutdown_cause[3] = "SHUTDOWN"
    /\ shutdown_cause[2] = "disconnect"

-----------------------------------------------------------------------------
(* C35: a handler that raises.                                             *)

\* the handler registered at msg.handle raises when called with msg
HandlerRaises(msg) ==
    /\ msg.handle \in DOMAIN _handle_map
    /\ CallHandler(St, _handle_map[msg.handle].fn, msg).exc # ""

\* C35 (handler exceptions).  When the handler a frame for this process is
\* dispatched to raises, on_receive returns normally with the crash logged:
\* nothing is left to propagate to the broker loop, a persistent handler
\* is registered as before, the stream the frame came in on is still read
\* and its fds are as they were, and the broker is still running.
C35_HandlerContained ==
    \A s \in Readable, msg \in FramesIn :
       (msg.dst_id = context_id /\ HandlerRaises(msg)) =>
          LET st == Receive(s, msg)
              e  == _handle_map[msg.handle]
          IN  /\ "handler crashed" \in st.logged
              /\ st.exc = ""
              /\ e.persist =>
                   /\ msg.handle \in DOMAIN st._handle_map
                   /\ st._handle_map[msg.handle] = e
              /\ s \in st._readers
              /\ st.side_fd = side_fd
              /\ st._stream_by_id = _stream_by_id
              /\ st._alive = _alive

\* C35's case: a slave whose parent stream is being read takes an ADD_ROUTE
\* frame with a payload that is not two integers; the persistent
\* _on_add_route raises ValueError and _invoke logs the crash.
C35_Witness ==
    /\ _alive /\ parent_id # None /\ "parent" \in _readers
    /\ \E msg \in FramesIn :
          /\ msg.dst_id = context_id /\ msg.handle = ADD_ROUTE
          /\ HandlerRaises(msg)
          /\ _handle_map[ADD_ROUTE].persist
          /\ "handler crashed" \in Receive("parent", msg).logged

-----------------------------------------------------------------------------
(* C36: a payload that cannot be decoded.                                  *)

\* the reply the peer of stream s sends to the receiver at handle h, its
\* pickle naming a global that _find_global refuses
RefusedReply(s, h) ==
    [dst_id |-> context_id, src_id |-> StreamPeer(s), handle |-> h,
     reply_to |-> None, data |-> Data("not whitelisted")]

\* C36 (undecodable payload), as claimed.  When a message whose payload
\* cannot be decoded comes in on a stream for a waiting receiver, the
\* get() that takes it ends in StreamError, and the stream it came in on
\* is disconnected: no longer read, its fds closed.
C36_UndecodableDisconnects ==
    \A s \in Readable \ {"waker"}, h \in DOMAIN receivers :
       (h \in DOMAIN _handle_map /\ side_fd[s] = "open") =>
          LET msg == RefusedReply(s, h)
              st  == Receive(s, msg)
          IN  /\ st.Receiver_queue[h] = Append(Receiver_queue[h], msg)
              /\ \A raise_channelerror \in BOOLEAN :
                    GetOutcome(raise_channelerror, msg) = "StreamError"
              /\ s \notin st._readers
              /\ st.side_fd[s] = "closed"

-----------------------------------------------------------------------------
(* C37: the sentinel in the child's output.                                *)

\* C37 (sentinel detection), as claimed.  A read of the loop waiting for
\* EC0 whose chunk holds the line EC0 is taken as the sentinel, whether
\* the chunk ends with that line or goes on after it.
C37_SentinelSeen ==
    (last_step.outcome # "" /\ "EC0\n" \in Range(last_step.buf))
        => last_step.outcome = "_ec0_received"

-----------------------------------------------------------------------------
(* C38: Select.get and oneshot.                                            *)

\* C38 (oneshot), as claimed.  A turn of Select.get that returns a message
\* of a receiver leaves that receiver out of the Select's _receivers when
\* the Select is oneshot, and leaves _receivers as it was when it is not;
\* a turn that returns nothing removes nothing; and get() on a Select
\* without receivers raises SelectError and does not wait.
C38_Oneshot ==
    [][\A sel \in Used :
          /\ get_turn(sel) =>
               LET recv == Head(Select_queue[sel])
                   st   == Select_get_turn(SelSt, sel, _oneshot[sel])
               IN  /\ (st.exc = "" /\ _oneshot[sel]) =>
                          recv \notin Range(_receivers'[sel])
                   /\ (st.exc = "" /\ ~_oneshot[sel]) =>
                          _receivers'[sel] = _receivers[sel]
                   /\ st.exc # "" => _receivers'[sel] = _receivers[sel]
          /\ (get_begin(sel) /\ _receivers[sel] = <<>>) => ~getting'[sel]]_vars

-----------------------------------------------------------------------------
(* SpecRelated: ModuleResponder.find_related and find_related_imports.     *)

\* generate_parent_names(fullname), all of them loaded
generate_parent_names(fullname) == IF fullname = "pkg.a" THEN {"pkg"} ELSE {}

\* find_related_imports(fullname): the parent packages and the names the
\* module's import statements loaded, as a set (_related_cache keeps the
\* sorted list, so every call gives the same)
find_related_imports(fullname) ==
    generate_parent_names(fullname) \cup imports_of[fullname]

\* the difference without `found`
Bad_difference(fullnames, found, stack, fullname) ==
    fullnames \ ({stack[i] : i \in DOMAIN stack} \cup {fullname})

\* set(fullnames).difference(found, stack, [fullname])
difference(fullnames, found, stack, fullname) ==
    fullnames \ (found \cup {stack[i] : i \in DOMAIN stack} \cup {fullname})

RelatedInit ==
    /\ FrameIdle
    /\ Started(MasterConfig)
    /\ BrokerIdle /\ DispatchIdle /\ IdsIdle /\ ImportIdle /\ TreeIdle /\ MainIdle /\ BootIdle /\ PickleIdle /\ TransmitIdle /\ CascadeIdle
    /\ SelectsUnused
    /\ imports_of \in [Modules -> SUBSET Modules]
    /\ related_pc = "idle"
    /\ related_root = ""
    /\ related_stack = <<>>
    /\ related_found = {}
    /\ related_turns = 0

RelatedFrame == UNCHANGED <<frameVars, routerVars, notRelated, imports_of>>

\* find_related(fullname) up to the loop
find_related(fullname) ==
    /\ related_pc = "idle"
    /\ related_pc' = "loop"
    /\ related_root' = fullname
    /\ related_stack' = <<fullname>>
    /\ related_found' = {}
    /\ UNCHANGED related_turns
    /\ RelatedFrame

\* one turn of `while stack`
find_related_turn ==
    /\ related_pc = "loop"
    /\ related_stack # <<>>
    /\ LET fullname  == Head(related_stack)
           stack     == Tail(related_stack)
           fullnames == find_related_imports(fullname)
       IN  \* a Python set is iterated in no particular order
           /\ \E q \in Orders(difference(fullnames, related_found, stack, fullname)) :
                 related_stack' = stack \o q
           /\ related_found' = related_found \cup fullnames
    /\ related_turns' = related_turns + 1
    /\ UNCHANGED <<related_pc, related_root>>
    /\ RelatedFrame

\* the stack is empty: return found
find_related_return ==
    /\ related_pc = "loop"
    /\ related_stack = <<>>
    /\ related_pc' = "returned"
    /\ UNCHANGED <<related_root, related_stack, related_found, related_turns>>
    /\ RelatedFrame

RelatedNext ==
    \/ \E fullname \in Modules : find_related(fullname)
    \/ find_related_turn
    \/ find_related_return

SpecRelated == RelatedInit /\ [][RelatedNext]_vars

-----------------------------------------------------------------------------
(* C39: find_related on any import graph.                                  *)

RECURSIVE StepsFrom(_, _)
\* the names reached from the names of S by at most n further steps of
\* find_related_imports
StepsFrom(S, n) ==
    IF n = 0 THEN S
    ELSE StepsFrom(S \cup UNION {find_related_imports(m) : m \in S}, n - 1)

\* the names reached from fullname by one or more steps
RelatedTo(fullname) ==
    StepsFrom(find_related_imports(fullname), Cardinality(Modules))

-----------------------------------------------------------------------------
(* C40: end of file inside a frame.                                        *)

\* What Stream.on_receive raises after a read of buf that left input_buf
\* unparsed: nothing.  It has no raise statement, _receive_one returns
\* False on an incomplete frame, and a zero-byte read ends in
\* `return self.on_disconnect(broker)` whatever _input_buf holds.
on_receive_raises(buf, input_buf) == ""

\* C40 (EOF inside a frame), as claimed.  When the zero-byte read comes
\* while _input_buf holds part of a frame, on_receive fails with
\* StreamError.
C40_PartialFrameFails ==
    (eof /\ _input_buf # <<>>) =>
        on_receive_raises(<<>>, _input_buf) = "StreamError"


=============================================================================
